---- MODULE Spec2Model ----
(***************************************************************************)
(* mdns-discover: the discovery run of main.go (fan-out over the service   *)
(* catalog under a counting semaphore, fan-in over a result channel,       *)
(* global deduplication, output) and the single query discover().          *)
(***************************************************************************)
EXTENDS Integers, Sequences, FiniteSets, TLC

VARIABLES
    serviceFilter,          \* MDNS_SERVICE_FILTER ("" when unset)
    services,               \* the catalog, var services = [...]string{...}
    maxConcurrentDiscover,  \* capacity of sem
    outputMode,             \* OutputText / OutputJSON
    mainPc,                 \* position of the main goroutine
    exitCode,               \* -1 while the process runs, else the exit status
    pc,                     \* pc[c]: position of call c (0: main's own call, i: worker i)
    invocations,            \* invocations[c]: times discover() was entered for c
    expired,                \* expired[c]: ctx.Done() of call c is closed
    closed,                 \* closed[c]: the resolver closed entries of call c
    collected,              \* collected[c]: the slice collected of call c
    seenLocal,              \* seenLocal[c]: the map seen of call c
    nresults,               \* nresults[c]
    derr,                   \* derr[c]: the error discover() returned
    appended,               \* records the queries of this run have appended so far
    sem,                    \* len(sem)
    wg,                     \* the WaitGroup counter
    ch,                     \* the buffered result channel
    chClosed,               \* close(ch) has run
    closerPc,               \* the goroutine func() { wg.Wait(); close(ch) }
    launched,               \* iterations of the launch loop done
    nbatches,               \* iterations of for b := range ch done
    seen,                   \* the aggregator's map seen
    count,                  \* the aggregator's count
    discovered,             \* var discovered []Service
    stdout,                 \* what was written to os.Stdout, in order
    stderr,                 \* what was written to os.Stderr, in order
    debug,                  \* MDNS_DEBUG is "1" or "true"
    timeoutFlag,            \* the value of --timeout ("" when not given)
    envTimeout,             \* MDNS_TIMEOUT ("" when unset)
    outputFields,           \* main's outputFields, the names in pieces
    mainSelectedFields,     \* the selectedFields of main, for the aggregator
    concurrencyFlag,        \* the value of --concurrency ("" when not given)
    envConcurrency,         \* MDNS_CONCURRENCY ("" when unset)
    effectiveTimeout,       \* var effectiveTimeout time.Duration, in milliseconds
    applied                 \* the last application of a function of service.go

vars == <<serviceFilter, services, maxConcurrentDiscover, outputMode, mainPc,
          exitCode, pc, invocations, expired, closed, collected, seenLocal,
          nresults, derr, appended, sem, wg, ch, chClosed, closerPc, launched,
          nbatches, seen, count, discovered, stdout, stderr,
          debug, timeoutFlag, envTimeout, concurrencyFlag, envConcurrency,
          effectiveTimeout, applied, outputFields, mainSelectedFields>>

\* the environment and the flags, which the program reads and never writes
envVars == <<debug, timeoutFlag, envTimeout, concurrencyFlag, envConcurrency>>
fieldVars == <<outputFields, mainSelectedFields>>

----------------------------------------------------------------------------
(* Bounds of the model *)

\* longest catalog
MaxCatalog == 2
\* largest concurrency limit
MaxConcurrency == 2
\* the resolvers deliver entries while the queries of the run have appended fewer
\* records than this
MaxRecords == 2
\* longest TXT list given to parseTXT
MaxTXT == 2
\* longest list of field names given to normalizeOutputFields
MaxFields == 2

----------------------------------------------------------------------------
(* Constants of the program *)

\* var maxConcurrentDiscover = 10
initialMaxConcurrentDiscover == 10

\* const defaultTimeout = 15 * time.Second, in milliseconds
defaultTimeout == 15 * 1000

exitOK == 0
exitErr == 1
exitUsage == 2
exitResolveInit == 3
exitBrowseFail == 4
exitTimeoutZero == 5

OutputText == "text"
OutputJSON == "json"

errNil == "nil"
errResolverInit == "resolver init failed"
errBrowseFailed == "browse failed"
errTimedOutZero == "timeout no results"
errOther == "other"

\* a nil map[string]string, and a nil []Service
NilMap == << >>
NilSlice == << >>

\* The catalog entries, in the order of the generated array.
AllServices == <<"_ssh._tcp", "_http._tcp", "_ipp._tcp", "_smb._tcp", "_afpovertcp._tcp">>

\* The entries a resolver may deliver: hostname, IPv4 and IPv6 literals, port and
\* raw TXT strings (a string is its sequence of characters); the second repeats
\* its address, the third has none.
RawEntries ==
    { [HostName |-> "host.local.", AddrIPv4 |-> <<"10.0.0.5">>, AddrIPv6 |-> <<"fe80::1">>,
       Port |-> 22, Text |-> << <<"f", "v", "=", "p">>, <<"j">> >>],
      [HostName |-> "host.local.", AddrIPv4 |-> <<"10.0.0.5", "10.0.0.5">>, AddrIPv6 |-> << >>,
       Port |-> 22, Text |-> << <<"f", "v", "=", "q">> >>],
      [HostName |-> "other.local.", AddrIPv4 |-> << >>, AddrIPv6 |-> << >>,
       Port |-> 9, Text |-> << <<"f", "v", "=", "z">> >>] }

\* The values --timeout and MDNS_TIMEOUT may have: none, "5s", "1m", "0s", "-3s",
\* "abc" and "10"
TimeoutInputs ==
    { << >>, <<"5", "s">>, <<"1", "m">>, <<"0", "s">>, <<"-", "3", "s">>,
      <<"a", "b", "c">>, <<"1", "0">> }

\* The values --concurrency and MDNS_CONCURRENCY may have: none, "3", "0", "-1",
\* "x" and " 2"
ConcurrencyInputs ==
    { << >>, <<"3">>, <<"0">>, <<"-", "1">>, <<"x">>, <<" ", "2">> }

\* no function of service.go has been applied
NoCall == [fn |-> "none"]

\* The TXT strings given to parseTXT: "fv=p20.1", "junk", "=x", "", "a=b=c", "fv=q"
\* and "k="
TXTSegments ==
    { <<"f", "v", "=", "p", "2", "0", ".", "1">>, <<"j", "u", "n", "k">>, <<"=", "x">>,
      << >>, <<"a", "=", "b", "=", "c">>, <<"f", "v", "=", "q">>, <<"k", "=">> }

\* The TXT lists of the records given to json.MarshalIndent: none, "junk", "fv=q"
\* and "k=<\"\\";"a=b"
JSONTexts ==
    { << >>, << <<"j", "u", "n", "k">> >>, << <<"f", "v", "=", "q">> >>,
      << <<"k", "=", "<", "\"", "\\">>, <<"a", "=", "b">> >> }

\* The field names given to normalizeOutputFields, each in pieces
RawNames ==
    { <<"count">>, <<"service">>, <<" ", "hostname">>, <<"address", " ">>, <<"port">>,
      <<"text">>, <<" ">>, <<"bogus">>, <<"hostname">> }

\* the sequences of at most n elements of S
SeqsUpTo(S, n) == UNION {[1..k -> S] : k \in 0..n}

----------------------------------------------------------------------------
(* time.ParseDuration, for durations of whole milliseconds without a fraction *)

DigitChars == {"0", "1", "2", "3", "4", "5", "6", "7", "8", "9"}

DigitVal(digit) ==
    CASE digit = "0" -> 0 [] digit = "1" -> 1 [] digit = "2" -> 2 [] digit = "3" -> 3 [] digit = "4" -> 4
      [] digit = "5" -> 5 [] digit = "6" -> 6 [] digit = "7" -> 7 [] digit = "8" -> 8 [] digit = "9" -> 9

\* the length of the longest prefix of s made of digits
LeadingDigits(s) ==
    CHOOSE n \in 0..Len(s) :
        /\ \A i \in 1..n : s[i] \in DigitChars
        /\ n = Len(s) \/ s[n + 1] \notin DigitChars

\* the length of the longest prefix of s without a digit
LeadingUnit(s) ==
    CHOOSE n \in 0..Len(s) :
        /\ \A i \in 1..n : s[i] \notin DigitChars
        /\ n = Len(s) \/ s[n + 1] \in DigitChars

RECURSIVE DecimalValue(_)
DecimalValue(digits) ==
    IF Len(digits) = 0 THEN 0
    ELSE 10 * DecimalValue(SubSeq(digits, 1, Len(digits) - 1)) + DigitVal(digits[Len(digits)])

\* the digit of n, for n below ten
DigitOf(n) == CHOOSE digit \in DigitChars : DigitVal(digit) = n

\* Atoi where the sign is dropped
AtoiUnsigned(s) ==
    LET signed == Len(s) > 0 /\ s[1] \in {"-", "+"}
        digits == IF signed THEN Tail(s) ELSE s
    IN IF Len(digits) > 0 /\ LeadingDigits(digits) = Len(digits)
       THEN [ok |-> TRUE, n |-> DecimalValue(digits)]
       ELSE [ok |-> FALSE, n |-> 0]

\* strconv.Atoi(s), which is what flag.IntVar does with a decimal string as well:
\* ok is err == nil, n the number
Atoi(s) ==
    LET signed == Len(s) > 0 /\ s[1] \in {"-", "+"}
        digits == IF signed THEN Tail(s) ELSE s
    IN IF Len(digits) > 0 /\ LeadingDigits(digits) = Len(digits)
       THEN [ok |-> TRUE,
             n |-> IF s[1] = "-" THEN 0 - DecimalValue(digits) ELSE DecimalValue(digits)]
       ELSE [ok |-> FALSE, n |-> 0]

\* unitMap, in milliseconds; 0 for a string that is no unit
UnitMs(u) ==
    CASE u = <<"m", "s">> -> 1
      [] u = <<"s">> -> 1000
      [] u = <<"m">> -> 60 * 1000
      [] u = <<"h">> -> 60 * 60 * 1000
      [] OTHER -> 0

\* the loop of ParseDuration over the groups number-unit of s, d the sum so far
RECURSIVE ParseGroups(_, _)
ParseGroups(s, d) ==
    IF Len(s) = 0 THEN [ok |-> TRUE, d |-> d]
    ELSE LET n == LeadingDigits(s)
             rest == SubSeq(s, n + 1, Len(s))
             u == LeadingUnit(rest)
             unit == SubSeq(rest, 1, u)
         IN IF n = 0 \/ u = 0 \/ UnitMs(unit) = 0
            THEN [ok |-> FALSE, d |-> 0]
            ELSE ParseGroups(SubSeq(rest, u + 1, Len(rest)),
                             d + DecimalValue(SubSeq(s, 1, n)) * UnitMs(unit))

\* time.ParseDuration(s): ok is err == nil, d the duration
ParseDuration(s) ==
    LET signed == Len(s) > 0 /\ s[1] \in {"-", "+"}
        neg == Len(s) > 0 /\ s[1] = "-"
        rest == IF signed THEN Tail(s) ELSE s
    IN IF rest = <<"0">> THEN [ok |-> TRUE, d |-> 0]
       ELSE IF rest = << >> THEN [ok |-> FALSE, d |-> 0]
       ELSE LET r == ParseGroups(rest, 0)
            IN IF r.ok /\ neg THEN [ok |-> TRUE, d |-> 0 - r.d] ELSE r

----------------------------------------------------------------------------
(* service.go *)

\* BuildKey returns a deduplication key
buildKey(host, addr, port) == host \o "|" \o addr \o "|" \o ToString(port)

\* strings.Join(txt, ";")
RECURSIVE JoinTXT(_)
JoinTXT(txt) ==
    IF Len(txt) = 0 THEN << >>
    ELSE IF Len(txt) = 1 THEN txt[1]
    ELSE txt[1] \o <<";">> \o JoinTXT(Tail(txt))

\* index of the last "=" of raw, 0 when there is none
LastEq(raw) ==
    IF \E i \in 1..Len(raw) : raw[i] = "="
    THEN CHOOSE i \in 1..Len(raw) : raw[i] = "=" /\ \A j \in (i + 1)..Len(raw) : raw[j] # "="
    ELSE 0

\* index of the first "=" of raw, 0 when there is none
FirstEq(raw) ==
    IF \E i \in 1..Len(raw) : raw[i] = "="
    THEN CHOOSE i \in 1..Len(raw) : raw[i] = "=" /\ \A j \in 1..(i - 1) : raw[j] # "="
    ELSE 0

\* the map m of parseTXT after its loop over txt, starting from m
RECURSIVE TXTPairs(_, _)
TXTPairs(txt, m) ==
    IF Len(txt) = 0 THEN m
    ELSE LET raw == Head(txt)
             i == FirstEq(raw)
             k == SubSeq(raw, 1, i - 1)
             v == SubSeq(raw, i + 1, Len(raw))
             m1 == IF raw # << >> /\ i > 0 /\ k # << >>
                   THEN [x \in (DOMAIN m) \cup {k} |-> IF x = k THEN v ELSE m[x]]
                   ELSE m
         IN TXTPairs(Tail(txt), m1)

\* ParseTXT records into joined string and key=value map
parseTXT(txt) ==
    IF Len(txt) = 0 THEN [joined |-> << >>, m |-> NilMap]
    ELSE LET m == TXTPairs(txt, NilMap)
         IN IF Cardinality(DOMAIN m) = 0
            THEN [joined |-> JoinTXT(txt), m |-> NilMap]
            ELSE [joined |-> JoinTXT(txt), m |-> m]

\* a Go string of the model as its pieces, and back: Hostname, Address and
\* ServiceType are held whole, Text and the TXT keys and values character by character
Pieces(s) == IF s = "" THEN << >> ELSE <<s>>
Whole(p) == IF p = << >> THEN "" ELSE p[1]

\* a list of whole names as a list of names in pieces
RawList(names) == [i \in 1..Len(names) |-> Pieces(names[i])]

\* the six default fields of normalizeOutputFields
DefaultFields == {"count", "service", "hostname", "address", "port", "text"}

\* the default fields in the order normalizeOutputFields appends them
DefaultFieldList == <<"count", "service", "hostname", "address", "port", "text">>

\* strings.TrimSpace(f) of a field name f given as its pieces, each a run of
\* characters without space or the space " "; the steps are functions, so that
\* each is applied to the value of its argument
TrimLeft[f \in Seq(STRING)] ==
    IF Len(f) > 0 /\ Head(f) = " " THEN TrimLeft[Tail(f)] ELSE f

TrimRight[f \in Seq(STRING)] ==
    IF Len(f) > 0 /\ f[Len(f)] = " " THEN TrimRight[SubSeq(f, 1, Len(f) - 1)] ELSE f

ConcatPieces[f \in Seq(STRING)] ==
    IF Len(f) = 0 THEN "" ELSE Head(f) \o ConcatPieces[Tail(f)]

TrimSpace(f) == ConcatPieces[TrimRight[TrimLeft[f]]]

\* OrderedFields that appends a name again when it is repeated
OrderedFieldsKeepRepeats(fields, ordered) ==
    LET loop[rest \in Seq(Seq(STRING)), acc \in Seq(STRING)] ==
            IF Len(rest) = 0 THEN acc
            ELSE LET f == TrimSpace(Head(rest))
                 IN IF f = ""
                    THEN loop[Tail(rest), acc]
                    ELSE loop[Tail(rest), Append(acc, f)]
    IN loop[fields, ordered]

\* the second loop of normalizeOutputFields over fields: ordered, seen the names
\* appended so far
OrderedFields(fields, ordered) ==
    LET loop[rest \in Seq(Seq(STRING)), acc \in Seq(STRING)] ==
            IF Len(rest) = 0 THEN acc
            ELSE LET f == TrimSpace(Head(rest))
                 IN IF f = "" \/ \E i \in 1..Len(acc) : acc[i] = f
                    THEN loop[Tail(rest), acc]
                    ELSE loop[Tail(rest), Append(acc, f)]
    IN loop[fields, ordered]

\* NormalizeOutputFields applies defaults if none provided and returns the final
\* slice plus a set for membership tests
normalizeOutputFields(fields) ==
    LET given == IF Len(fields) = 0 THEN [i \in 1..Len(DefaultFieldList) |-> <<DefaultFieldList[i]>>] ELSE fields
    IN [ordered |-> OrderedFields(given, << >>),
        selected |-> {TrimSpace(given[i]) : i \in 1..Len(given)} \ {""}]

\* buildOutputLine that appends the text whenever it is selected
buildOutputLineAnyText(selectedFields, seq, serviceName, host, addr, port, txt) ==
    (IF "count" \in selectedFields THEN <<ToString(seq)>> ELSE << >>)
    \o (IF "service" \in selectedFields THEN <<serviceName>> ELSE << >>)
    \o (IF "hostname" \in selectedFields THEN <<host>> ELSE << >>)
    \o (IF "address" \in selectedFields THEN <<addr>> ELSE << >>)
    \o (IF "port" \in selectedFields THEN <<ToString(port)>> ELSE << >>)
    \o (IF "text" \in selectedFields THEN <<txt>> ELSE << >>)

\* BuildOutputLine: the parts of the line, which strings.Join separates by " "
buildOutputLine(selectedFields, seq, serviceName, host, addr, port, txt) ==
    (IF "count" \in selectedFields THEN <<ToString(seq)>> ELSE << >>)
    \o (IF "service" \in selectedFields THEN <<serviceName>> ELSE << >>)
    \o (IF "hostname" \in selectedFields THEN <<host>> ELSE << >>)
    \o (IF "address" \in selectedFields THEN <<addr>> ELSE << >>)
    \o (IF "port" \in selectedFields THEN <<ToString(port)>> ELSE << >>)
    \o (IF "text" \in selectedFields /\ txt # << >> THEN <<txt>> ELSE << >>)

----------------------------------------------------------------------------
(* main.go: helpers *)

\* printResults left true in JSON mode
printResultsAlways == TRUE

printResults == outputMode # OutputJSON

Workers == 1..Len(services)
Calls == 0..MaxCatalog

\* the service type call c queries
NameOf(c) == IF c = 0 THEN serviceFilter ELSE services[c]

\* the state of main before the flags are read
ProgramInit ==
    /\ serviceFilter \in {"", "_workstation._tcp"}
    /\ \E n \in 0..MaxCatalog : services = SubSeq(AllServices, 1, n)
    /\ maxConcurrentDiscover = initialMaxConcurrentDiscover
    /\ outputMode \in {OutputText, OutputJSON}
    /\ mainPc = "flags"
    /\ exitCode = -1
    /\ pc = [c \in Calls |-> "none"]
    /\ invocations = [c \in Calls |-> 0]
    /\ expired = [c \in Calls |-> FALSE]
    /\ closed = [c \in Calls |-> FALSE]
    /\ collected = [c \in Calls |-> NilSlice]
    /\ seenLocal = [c \in Calls |-> {}]
    /\ nresults = [c \in Calls |-> 0]
    /\ derr = [c \in Calls |-> errNil]
    /\ appended = 0
    /\ sem = 0
    /\ wg = 0
    /\ ch = << >>
    /\ chClosed = FALSE
    /\ closerPc = "none"
    /\ launched = 0
    /\ nbatches = 0
    /\ seen = {}
    /\ count = 0
    /\ discovered = NilSlice
    /\ stdout = << >>
    /\ stderr = << >>
    /\ effectiveTimeout = 0
    /\ applied = NoCall
    /\ outputFields = << >>
    /\ mainSelectedFields = {}

\* a run with --concurrency, no MDNS_CONCURRENCY, no --timeout, no MDNS_TIMEOUT and
\* no MDNS_DEBUG
Init ==
    /\ ProgramInit
    /\ \E n \in 1..MaxConcurrency : concurrencyFlag = <<DigitOf(n)>>
    /\ envConcurrency = << >>
    /\ debug = FALSE
    /\ timeoutFlag = << >>
    /\ envTimeout = << >>

\* the runs over a catalog of at most one entry, with every setting of --timeout,
\* MDNS_TIMEOUT and MDNS_DEBUG
EnvInit ==
    /\ ProgramInit
    /\ Len(services) <= 1
    /\ concurrencyFlag = <<"1">>
    /\ envConcurrency = << >>
    /\ debug \in BOOLEAN
    /\ timeoutFlag \in TimeoutInputs
    /\ envTimeout \in TimeoutInputs

\* the runs over a catalog of at most one entry, with every setting of
\* --concurrency and MDNS_CONCURRENCY
ConcurrencyInit ==
    /\ ProgramInit
    /\ Len(services) <= 1
    /\ concurrencyFlag \in ConcurrencyInputs
    /\ envConcurrency \in ConcurrencyInputs
    /\ debug = FALSE
    /\ timeoutFlag = << >>
    /\ envTimeout = << >>

----------------------------------------------------------------------------
(* main.go: discover *)

\* _, selectedFields := normalizeOutputFields(fields) of discover, fields being
\* main's outputFields as the caller passes it; a worker reads it while main may
\* write it, and makes of either value a selection that serves for lines it
\* never prints
fieldsOfDiscover == normalizeOutputFields(outputFields).selected

\* EmitAddrs where emit does not look the key up in seen
RECURSIVE EmitAddrsNoSeen(_, _, _, _, _, _, _, _)
EmitAddrsNoSeen(st, name, host, port, addrs, joinedTXT, txtMap, print) ==
    IF Len(addrs) = 0 THEN st
    ELSE LET addrStr == Head(addrs)
             key == buildKey(host, addrStr, port)
             line == buildOutputLine(fieldsOfDiscover, st.nresults + 1, name, host,
                                     addrStr, port, joinedTXT)
             srv == [ServiceType |-> name, Hostname |-> host, Address |-> addrStr,
                     Port |-> port, Text |-> joinedTXT, TxtMap |-> NilMap]
             st1 == IF FALSE THEN st
                    ELSE [collected |-> Append(st.collected, srv),
                          seen |-> st.seen \cup {key},
                          nresults |-> st.nresults + 1,
                          lines |-> IF print THEN Append(st.lines, [kind |-> "line", parts |-> line])
                                    ELSE st.lines]
             st2 == IF Cardinality(DOMAIN txtMap) > 0
                    THEN [st1 EXCEPT !.collected[Len(st1.collected)].TxtMap = txtMap]
                    ELSE st1
         IN EmitAddrsNoSeen(st2, name, host, port, Tail(addrs), joinedTXT, txtMap, print)

\* the closure emit of discover, then the TxtMap assignment that follows each call
\* of it, for the addresses addrs of one entry; st holds collected, seen, nresults
\* and the lines printed
RECURSIVE EmitAddrs(_, _, _, _, _, _, _, _)
EmitAddrs(st, name, host, port, addrs, joinedTXT, txtMap, print) ==
    IF Len(addrs) = 0 THEN st
    ELSE LET addrStr == Head(addrs)
             key == buildKey(host, addrStr, port)
             line == buildOutputLine(fieldsOfDiscover, st.nresults + 1, name, host,
                                     addrStr, port, joinedTXT)
             srv == [ServiceType |-> name, Hostname |-> host, Address |-> addrStr,
                     Port |-> port, Text |-> joinedTXT, TxtMap |-> NilMap]
             st1 == IF key \in st.seen THEN st
                    ELSE [collected |-> Append(st.collected, srv),
                          seen |-> st.seen \cup {key},
                          nresults |-> st.nresults + 1,
                          lines |-> IF print THEN Append(st.lines, [kind |-> "line", parts |-> line])
                                    ELSE st.lines]
             st2 == IF Cardinality(DOMAIN txtMap) > 0
                    THEN [st1 EXCEPT !.collected[Len(st1.collected)].TxtMap = txtMap]
                    ELSE st1
         IN EmitAddrs(st2, name, host, port, Tail(addrs), joinedTXT, txtMap, print)

\* HandleEntry where an entry without address gives a record with an empty one
HandleEntryAnyEntry(st, name, entry, print) ==
    LET t == parseTXT(entry.Text)
        none == entry.AddrIPv4 = << >> /\ entry.AddrIPv6 = << >>
        v4 == EmitAddrs(st, name, entry.HostName, entry.Port,
                        IF none THEN <<"">> ELSE entry.AddrIPv4, t.joined, t.m, print)
    IN EmitAddrs(v4, name, entry.HostName, entry.Port, entry.AddrIPv6, t.joined, t.m, print)

\* one received entry: parseTXT, the IPv4 loop, the IPv6 loop
HandleEntry(st, name, entry, print) ==
    LET t == parseTXT(entry.Text)
        v4 == EmitAddrs(st, name, entry.HostName, entry.Port, entry.AddrIPv4, t.joined, t.m, print)
    IN EmitAddrs(v4, name, entry.HostName, entry.Port, entry.AddrIPv6, t.joined, t.m, print)

\* PrintsOf where a worker passes printResults as well
PrintsOfAll(c) == printResults

\* whether call c prints its lines: main passes printResults, a worker passes false
PrintsOf(c) == IF c = 0 THEN printResults ELSE FALSE

\* if debug && printResults: the line "Showing: ..." on stdout
Showing(c) ==
    IF debug /\ PrintsOf(c) THEN <<[kind |-> "showing", parts |-> << >>]>> ELSE << >>

\* if debug: the line "debug: discovery ..." on stderr
DebugLine(c, what) ==
    IF debug THEN <<[kind |-> "debug", name |-> NameOf(c), err |-> what]>> ELSE << >>

\* discover up to the loop: zeroconf.NewResolver, resolver.Browse, the empty
\* collected and seen
DiscoverStart(c) ==
    /\ pc[c] = "start"
    /\ invocations' = [invocations EXCEPT ![c] = @ + 1]
    /\ collected' = [collected EXCEPT ![c] = NilSlice]
    /\ seenLocal' = [seenLocal EXCEPT ![c] = {}]
    /\ nresults' = [nresults EXCEPT ![c] = 0]
    /\ \/ /\ pc' = [pc EXCEPT ![c] = "ret"]
          /\ derr' = [derr EXCEPT ![c] = errResolverInit]
          /\ stdout' = stdout
       \/ /\ pc' = [pc EXCEPT ![c] = "ret"]
          /\ derr' = [derr EXCEPT ![c] = errBrowseFailed]
          /\ stdout' = stdout \o Showing(c)
       \/ /\ pc' = [pc EXCEPT ![c] = "loop"]
          /\ derr' = [derr EXCEPT ![c] = errNil]
          /\ stdout' = stdout \o Showing(c)
    /\ expired' = [expired EXCEPT ![c] = pc'[c] = "loop" /\ effectiveTimeout <= 0]
    /\ UNCHANGED <<envVars, fieldVars, effectiveTimeout, applied, serviceFilter, services,
                   maxConcurrentDiscover, outputMode, mainPc,
                   exitCode, closed, appended, sem, wg, ch, chClosed,
                   closerPc, launched, nbatches, seen, count, discovered, stderr>>

\* DeadlineExpire with one deadline for all the queries that run
DeadlineExpireShared(c) ==
    /\ pc[c] = "loop"
    /\ ~expired[c]
    /\ expired' = [d \in Calls |-> pc[d] = "loop" \/ expired[d]]
    /\ UNCHANGED <<envVars, fieldVars, effectiveTimeout, applied, serviceFilter, services, maxConcurrentDiscover, outputMode, mainPc,
                   exitCode, pc, invocations, closed, collected, seenLocal, nresults,
                   derr, appended, sem, wg, ch, chClosed, closerPc, launched,
                   nbatches, seen, count, discovered, stdout, stderr>>

\* the deadline of context.WithTimeout(context.Background(), timeout) passes
DeadlineExpire(c) ==
    /\ pc[c] = "loop"
    /\ ~expired[c]
    /\ expired' = [expired EXCEPT ![c] = TRUE]
    /\ UNCHANGED <<envVars, fieldVars, effectiveTimeout, applied, serviceFilter, services, maxConcurrentDiscover, outputMode, mainPc,
                   exitCode, pc, invocations, closed, collected, seenLocal, nresults,
                   derr, appended, sem, wg, ch, chClosed, closerPc, launched,
                   nbatches, seen, count, discovered, stdout, stderr>>

\* the resolver closes the channel entries it was given: when its context is done
\* or on its own
ResolverClose(c) ==
    /\ pc[c] = "loop"
    /\ ~closed[c]
    /\ closed' = [closed EXCEPT ![c] = TRUE]
    /\ UNCHANGED <<envVars, fieldVars, effectiveTimeout, applied, serviceFilter, services, maxConcurrentDiscover, outputMode, mainPc,
                   exitCode, pc, invocations, expired, collected, seenLocal, nresults,
                   derr, appended, sem, wg, ch, chClosed, closerPc, launched,
                   nbatches, seen, count, discovered, stdout, stderr>>

\* DoneError without the test of len(collected)
DoneErrorAlways(batch) == errTimedOutZero

\* the error of case <-ctx.Done()
DoneError(batch) == IF Len(batch) = 0 THEN errTimedOutZero ELSE errNil

\* select takes case <-ctx.Done(); the deferred cancel() ends the context, and
\* entries goes out of scope
SelectDone(c) ==
    /\ pc[c] = "loop"
    /\ expired[c]
    /\ derr' = [derr EXCEPT ![c] = DoneError(collected[c])]
    /\ pc' = [pc EXCEPT ![c] = "ret"]
    /\ stderr' = stderr \o DebugLine(c, "done")
    /\ expired' = [expired EXCEPT ![c] = FALSE]
    /\ closed' = [closed EXCEPT ![c] = FALSE]
    /\ UNCHANGED <<envVars, fieldVars, effectiveTimeout, applied, serviceFilter, services, maxConcurrentDiscover, outputMode, mainPc,
                   exitCode, invocations, collected, seenLocal, nresults, appended,
                   sem, wg, ch, chClosed, closerPc, launched, nbatches, seen, count,
                   discovered, stdout>>

\* SelectClosed that returns as case <-ctx.Done() does
SelectClosedAsDone(c) ==
    /\ pc[c] = "loop"
    /\ closed[c]
    /\ derr' = [derr EXCEPT ![c] = DoneError(collected[c])]
    /\ pc' = [pc EXCEPT ![c] = "ret"]
    /\ stderr' = stderr \o DebugLine(c, "closed")
    /\ expired' = [expired EXCEPT ![c] = FALSE]
    /\ closed' = [closed EXCEPT ![c] = FALSE]
    /\ UNCHANGED <<envVars, fieldVars, effectiveTimeout, applied, serviceFilter, services, maxConcurrentDiscover, outputMode, mainPc,
                   exitCode, invocations, collected, seenLocal, nresults, appended,
                   sem, wg, ch, chClosed, closerPc, launched, nbatches, seen, count,
                   discovered, stdout>>

\* select takes case entry, ok := <-entries with ok false
SelectClosed(c) ==
    /\ pc[c] = "loop"
    /\ closed[c]
    /\ derr' = [derr EXCEPT ![c] = errNil]
    /\ pc' = [pc EXCEPT ![c] = "ret"]
    /\ stderr' = stderr \o DebugLine(c, "closed")
    /\ expired' = [expired EXCEPT ![c] = FALSE]
    /\ closed' = [closed EXCEPT ![c] = FALSE]
    /\ UNCHANGED <<envVars, fieldVars, effectiveTimeout, applied, serviceFilter, services, maxConcurrentDiscover, outputMode, mainPc,
                   exitCode, invocations, collected, seenLocal, nresults, appended,
                   sem, wg, ch, chClosed, closerPc, launched, nbatches, seen, count,
                   discovered, stdout>>

\* select takes case entry, ok := <-entries with an entry the resolver sends
SelectEntry(c, entry) ==
    /\ pc[c] = "loop"
    /\ ~closed[c]
    /\ appended < MaxRecords
    /\ LET st == HandleEntry([collected |-> collected[c], seen |-> seenLocal[c],
                              nresults |-> nresults[c], lines |-> << >>],
                             NameOf(c), entry, PrintsOf(c))
       IN /\ collected' = [collected EXCEPT ![c] = st.collected]
          /\ seenLocal' = [seenLocal EXCEPT ![c] = st.seen]
          /\ nresults' = [nresults EXCEPT ![c] = st.nresults]
          /\ stdout' = stdout \o st.lines
          /\ appended' = appended + (st.nresults - nresults[c])
    /\ UNCHANGED <<envVars, fieldVars, effectiveTimeout, applied, serviceFilter, services, maxConcurrentDiscover, outputMode, mainPc,
                   exitCode, pc, invocations, expired, closed, derr, sem, wg, ch,
                   chClosed, closerPc, launched, nbatches, seen, count, discovered, stderr>>

----------------------------------------------------------------------------
(* main.go: main, single-service branch *)

\* MainFlags where MDNS_TIMEOUT, when it parses, overrides --timeout
MainFlagsEnvFirst ==
    /\ mainPc = "flags"
    /\ LET envC == Atoi(TrimRight[TrimLeft[envConcurrency]])
           flagC == Atoi(concurrencyFlag)
           defaultConcurrency == IF envConcurrency # << >> /\ envC.ok /\ envC.n > 0
                                 THEN envC.n ELSE maxConcurrentDiscover
           concurrency == IF concurrencyFlag # << >> THEN flagC.n ELSE defaultConcurrency
           env == ParseDuration(envTimeout)
           flag == ParseDuration(timeoutFlag)
           fromEnv == IF envTimeout # << >> /\ env.ok THEN env.d ELSE defaultTimeout
           warning == IF envTimeout # << >> /\ ~env.ok
                      THEN <<[kind |-> "warning", name |-> "MDNS_TIMEOUT", err |-> errNil]>>
                      ELSE << >>
           help == [kind |-> "help", parts |-> << >>]
       IN IF concurrencyFlag # << >> /\ ~flagC.ok
          THEN /\ maxConcurrentDiscover' = maxConcurrentDiscover
               /\ effectiveTimeout' = effectiveTimeout
               /\ stderr' = Append(stderr, [kind |-> "usage", name |-> "flag", err |-> errNil])
               /\ stdout' = stdout \o <<help, help>>
               /\ exitCode' = exitUsage
               /\ mainPc' = "exited"
          ELSE IF concurrency <= 0
          THEN /\ maxConcurrentDiscover' = maxConcurrentDiscover
               /\ effectiveTimeout' = effectiveTimeout
               /\ stderr' = Append(stderr, [kind |-> "usage", name |-> "--concurrency",
                                            err |-> errNil])
               /\ stdout' = Append(stdout, help)
               /\ exitCode' = exitUsage
               /\ mainPc' = "exited"
          ELSE IF timeoutFlag # << >> /\ ~flag.ok
          THEN /\ maxConcurrentDiscover' = concurrency
               /\ effectiveTimeout' = fromEnv
               /\ stderr' = stderr \o warning
                               \o <<[kind |-> "usage", name |-> "--timeout", err |-> errNil]>>
               /\ stdout' = Append(stdout, help)
               /\ exitCode' = exitUsage
               /\ mainPc' = "exited"
          ELSE /\ maxConcurrentDiscover' = concurrency
               /\ effectiveTimeout' = IF envTimeout # << >> /\ env.ok THEN env.d
                                     ELSE IF timeoutFlag # << >> THEN flag.d ELSE fromEnv
               /\ stderr' = stderr \o warning
               /\ stdout' = stdout
               /\ exitCode' = exitCode
               /\ mainPc' = "begin"
    /\ UNCHANGED <<envVars, fieldVars, applied, serviceFilter, services,
                   outputMode, pc, invocations, expired, closed, collected, seenLocal,
                   nresults, derr, appended, sem, wg, ch, chClosed, closerPc, launched,
                   nbatches, seen, count, discovered>>

\* main reads the flags and the environment: fs.Parse fails on a --concurrency that
\* is no integer (the error, the usage twice, exit(exitUsage)); a concurrency that
\* is not positive gets the usage and exit(exitUsage), else it is the capacity;
\* then the effective timeout (flag > env > default): a warning for an
\* MDNS_TIMEOUT that does not parse, the usage and exit(exitUsage) for a --timeout
\* that does not
MainFlags ==
    /\ mainPc = "flags"
    /\ LET envC == Atoi(TrimRight[TrimLeft[envConcurrency]])
           flagC == Atoi(concurrencyFlag)
           defaultConcurrency == IF envConcurrency # << >> /\ envC.ok /\ envC.n > 0
                                 THEN envC.n ELSE maxConcurrentDiscover
           concurrency == IF concurrencyFlag # << >> THEN flagC.n ELSE defaultConcurrency
           env == ParseDuration(envTimeout)
           flag == ParseDuration(timeoutFlag)
           fromEnv == IF envTimeout # << >> /\ env.ok THEN env.d ELSE defaultTimeout
           warning == IF envTimeout # << >> /\ ~env.ok
                      THEN <<[kind |-> "warning", name |-> "MDNS_TIMEOUT", err |-> errNil]>>
                      ELSE << >>
           help == [kind |-> "help", parts |-> << >>]
       IN IF concurrencyFlag # << >> /\ ~flagC.ok
          THEN /\ maxConcurrentDiscover' = maxConcurrentDiscover
               /\ effectiveTimeout' = effectiveTimeout
               /\ stderr' = Append(stderr, [kind |-> "usage", name |-> "flag", err |-> errNil])
               /\ stdout' = stdout \o <<help, help>>
               /\ exitCode' = exitUsage
               /\ mainPc' = "exited"
          ELSE IF concurrency <= 0
          THEN /\ maxConcurrentDiscover' = maxConcurrentDiscover
               /\ effectiveTimeout' = effectiveTimeout
               /\ stderr' = Append(stderr, [kind |-> "usage", name |-> "--concurrency",
                                            err |-> errNil])
               /\ stdout' = Append(stdout, help)
               /\ exitCode' = exitUsage
               /\ mainPc' = "exited"
          ELSE IF timeoutFlag # << >> /\ ~flag.ok
          THEN /\ maxConcurrentDiscover' = concurrency
               /\ effectiveTimeout' = fromEnv
               /\ stderr' = stderr \o warning
                               \o <<[kind |-> "usage", name |-> "--timeout", err |-> errNil]>>
               /\ stdout' = Append(stdout, help)
               /\ exitCode' = exitUsage
               /\ mainPc' = "exited"
          ELSE /\ maxConcurrentDiscover' = concurrency
               /\ effectiveTimeout' = IF timeoutFlag # << >> THEN flag.d ELSE fromEnv
               /\ stderr' = stderr \o warning
               /\ stdout' = stdout
               /\ exitCode' = exitCode
               /\ mainPc' = "begin"
    /\ UNCHANGED <<envVars, fieldVars, applied, serviceFilter, services,
                   outputMode, pc, invocations, expired, closed, collected, seenLocal,
                   nresults, derr, appended, sem, wg, ch, chClosed, closerPc, launched,
                   nbatches, seen, count, discovered>>

\* MainBegin that enters the fan-out whether or not a filter is set
MainBeginFanOut ==
    /\ mainPc = "begin"
    /\ mainPc' = "launch"
    /\ UNCHANGED <<envVars, fieldVars, effectiveTimeout, applied, serviceFilter, services,
                   maxConcurrentDiscover, outputMode, exitCode, pc,
                   invocations, expired, closed, collected, seenLocal, nresults, derr,
                   appended, sem, wg, ch, chClosed, closerPc, launched, nbatches,
                   seen, count, discovered, stdout, stderr>>

\* main reaches if serviceFilter != "" and calls discover, or enters the fan-out
MainBegin ==
    /\ mainPc = "begin"
    /\ IF serviceFilter # ""
       THEN /\ mainPc' = "single"
            /\ pc' = [pc EXCEPT ![0] = "start"]
       ELSE /\ mainPc' = "launch"
            /\ pc' = pc
    /\ UNCHANGED <<envVars, fieldVars, effectiveTimeout, applied, serviceFilter, services, maxConcurrentDiscover, outputMode, exitCode,
                   invocations, expired, closed, collected, seenLocal, nresults, derr,
                   appended, sem, wg, ch, chClosed, closerPc, launched, nbatches,
                   seen, count, discovered, stdout, stderr>>

\* ClassifyExit without the classification
ClassifyExitGeneric(err) == exitErr

\* Classify exit code
ClassifyExit(err) ==
    IF err = errResolverInit THEN exitResolveInit
    ELSE IF err = errBrowseFailed THEN exitBrowseFail
    ELSE IF err = errTimedOutZero THEN exitTimeoutZero
    ELSE exitErr

\* discover(serviceFilter, ...) has returned to main: exit(code) on an error, else
\* discovered = append(discovered, res...)
MainSingleReturn ==
    /\ mainPc = "single"
    /\ pc[0] = "ret"
    /\ pc' = [pc EXCEPT ![0] = "end"]
    /\ IF derr[0] # errNil
       THEN /\ stderr' = Append(stderr, [kind |-> "error", name |-> serviceFilter,
                                            err |-> derr[0]])
            /\ exitCode' = ClassifyExit(derr[0])
            /\ mainPc' = "exited"
            /\ discovered' = discovered
       ELSE /\ stderr' = stderr
            /\ exitCode' = exitCode
            /\ mainPc' = "output"
            /\ discovered' = discovered \o collected[0]
    /\ UNCHANGED <<envVars, fieldVars, effectiveTimeout, applied, serviceFilter, services, maxConcurrentDiscover, outputMode,
                   invocations, expired, closed, collected, seenLocal, nresults, derr,
                   appended, sem, wg, ch, chClosed, closerPc, launched, nbatches,
                   seen, count, stdout>>

----------------------------------------------------------------------------
(* main.go: main, fan-out *)

\* one iteration of for _, s := range services: wg.Add(1) and the go statement
MainLaunch ==
    /\ mainPc = "launch"
    /\ launched < Len(services)
    /\ launched' = launched + 1
    /\ wg' = wg + 1
    /\ pc' = [pc EXCEPT ![launched + 1] = "acquire"]
    /\ UNCHANGED <<envVars, fieldVars, effectiveTimeout, applied, serviceFilter, services, maxConcurrentDiscover, outputMode, mainPc,
                   exitCode, invocations, expired, closed, collected, seenLocal,
                   nresults, derr, appended, sem, ch, chClosed, closerPc, nbatches,
                   seen, count, discovered, stdout, stderr>>

\* after the loop: go func() { wg.Wait(); close(ch) }(), then seen, count and
\* outputFields, selectedFields = normalizeOutputFields(outputFields): main
\* writes the variable the workers' closures read
MainStartCloser ==
    /\ mainPc = "launch"
    /\ launched = Len(services)
    /\ closerPc' = "wait"
    /\ mainPc' = "aggregate"
    /\ seen' = {}
    /\ count' = 0
    /\ \E n \in {normalizeOutputFields(outputFields)} :
          /\ outputFields' = RawList(n.ordered)
          /\ mainSelectedFields' = n.selected
    /\ UNCHANGED <<envVars, effectiveTimeout, applied, serviceFilter, services, maxConcurrentDiscover, outputMode, exitCode,
                   pc, invocations, expired, closed, collected, seenLocal, nresults,
                   derr, appended, sem, wg, ch, chClosed, launched, nbatches,
                   discovered, stdout, stderr>>

\* WorkerAcquire with a semaphore that never fills
WorkerAcquireUnbounded(w) ==
    /\ w \in Workers
    /\ pc[w] = "acquire"
    /\ sem' = sem + 1
    /\ pc' = [pc EXCEPT ![w] = "start"]
    /\ UNCHANGED <<envVars, fieldVars, effectiveTimeout, applied, serviceFilter, services, maxConcurrentDiscover, outputMode, mainPc,
                   exitCode, invocations, expired, closed, collected, seenLocal,
                   nresults, derr, appended, wg, ch, chClosed, closerPc, launched,
                   nbatches, seen, count, discovered, stdout, stderr>>

\* sem <- struct{}{}: blocks while the semaphore is full
WorkerAcquire(w) ==
    /\ w \in Workers
    /\ pc[w] = "acquire"
    /\ sem < maxConcurrentDiscover
    /\ sem' = sem + 1
    /\ pc' = [pc EXCEPT ![w] = "start"]
    /\ UNCHANGED <<envVars, fieldVars, effectiveTimeout, applied, serviceFilter, services, maxConcurrentDiscover, outputMode, mainPc,
                   exitCode, invocations, expired, closed, collected, seenLocal,
                   nresults, derr, appended, wg, ch, chClosed, closerPc, launched,
                   nbatches, seen, count, discovered, stdout, stderr>>

\* WorkerSend of a worker that returns without sending
WorkerSendNothing(w) ==
    /\ w \in Workers
    /\ pc[w] = "ret"
    /\ Len(ch) < Len(services)
    /\ ~chClosed
    /\ ch' = ch
    /\ pc' = [pc EXCEPT ![w] = "deferred"]
    /\ collected' = [collected EXCEPT ![w] = NilSlice]
    /\ seenLocal' = [seenLocal EXCEPT ![w] = {}]
    /\ nresults' = [nresults EXCEPT ![w] = 0]
    /\ derr' = [derr EXCEPT ![w] = errNil]
    /\ UNCHANGED <<envVars, fieldVars, effectiveTimeout, applied, serviceFilter, services, maxConcurrentDiscover, outputMode, mainPc,
                   exitCode, invocations, expired, closed, appended, sem, wg,
                   chClosed, closerPc, launched, nbatches, seen, count, discovered,
                   stdout, stderr>>

\* WorkerSend on a channel that holds one message
WorkerSendOneSlot(w) ==
    /\ w \in Workers
    /\ pc[w] = "ret"
    /\ Len(ch) < 1
    /\ ~chClosed
    /\ ch' = Append(ch, [services |-> collected[w], err |-> derr[w], name |-> services[w]])
    /\ pc' = [pc EXCEPT ![w] = "deferred"]
    /\ collected' = [collected EXCEPT ![w] = NilSlice]
    /\ seenLocal' = [seenLocal EXCEPT ![w] = {}]
    /\ nresults' = [nresults EXCEPT ![w] = 0]
    /\ derr' = [derr EXCEPT ![w] = errNil]
    /\ UNCHANGED <<envVars, fieldVars, effectiveTimeout, applied, serviceFilter, services, maxConcurrentDiscover, outputMode, mainPc,
                   exitCode, invocations, expired, closed, appended, sem, wg,
                   chClosed, closerPc, launched, nbatches, seen, count, discovered,
                   stdout, stderr>>

\* ch <- batch{services: res, err: err, name: svc}: blocks while ch is full; res,
\* err and what discover left behind are dead once sent
WorkerSend(w) ==
    /\ w \in Workers
    /\ pc[w] = "ret"
    /\ Len(ch) < Len(services)
    /\ ~chClosed
    /\ ch' = Append(ch, [services |-> collected[w], err |-> derr[w], name |-> services[w]])
    /\ pc' = [pc EXCEPT ![w] = "deferred"]
    /\ collected' = [collected EXCEPT ![w] = NilSlice]
    /\ seenLocal' = [seenLocal EXCEPT ![w] = {}]
    /\ nresults' = [nresults EXCEPT ![w] = 0]
    /\ derr' = [derr EXCEPT ![w] = errNil]
    /\ UNCHANGED <<envVars, fieldVars, effectiveTimeout, applied, serviceFilter, services, maxConcurrentDiscover, outputMode, mainPc,
                   exitCode, invocations, expired, closed, appended, sem, wg,
                   chClosed, closerPc, launched, nbatches, seen, count, discovered,
                   stdout, stderr>>

\* WorkerReturn without the deferred func() { <-sem }()
WorkerReturnLeak(w) ==
    /\ w \in Workers
    /\ pc[w] = "deferred"
    /\ wg' = wg - 1
    /\ pc' = [pc EXCEPT ![w] = "end"]
    /\ UNCHANGED <<envVars, fieldVars, effectiveTimeout, applied, serviceFilter, services, maxConcurrentDiscover, outputMode, mainPc,
                   exitCode, invocations, expired, closed, collected, seenLocal,
                   nresults, derr, appended, sem, ch, chClosed, closerPc, launched,
                   nbatches, seen, count, discovered, stdout, stderr>>

\* the goroutine returns and its deferred calls run, last registered first:
\* func() { <-sem }(), then wg.Done(); neither can block
WorkerReturn(w) ==
    /\ w \in Workers
    /\ pc[w] = "deferred"
    /\ sem' = sem - 1
    /\ wg' = wg - 1
    /\ pc' = [pc EXCEPT ![w] = "end"]
    /\ UNCHANGED <<envVars, fieldVars, effectiveTimeout, applied, serviceFilter, services, maxConcurrentDiscover, outputMode, mainPc,
                   exitCode, invocations, expired, closed, collected, seenLocal,
                   nresults, derr, appended, ch, chClosed, closerPc, launched,
                   nbatches, seen, count, discovered, stdout, stderr>>

\* CloserClose without wg.Wait()
CloserCloseEarly ==
    /\ closerPc = "wait"
    /\ chClosed' = TRUE
    /\ closerPc' = "end"
    /\ UNCHANGED <<envVars, fieldVars, effectiveTimeout, applied, serviceFilter, services, maxConcurrentDiscover, outputMode, mainPc,
                   exitCode, pc, invocations, expired, closed, collected, seenLocal,
                   nresults, derr, appended, sem, wg, ch, launched, nbatches, seen,
                   count, discovered, stdout, stderr>>

\* wg.Wait() returns when the counter is zero; close(ch)
CloserClose ==
    /\ closerPc = "wait"
    /\ wg = 0
    /\ chClosed' = TRUE
    /\ closerPc' = "end"
    /\ UNCHANGED <<envVars, fieldVars, effectiveTimeout, applied, serviceFilter, services, maxConcurrentDiscover, outputMode, mainPc,
                   exitCode, pc, invocations, expired, closed, collected, seenLocal,
                   nresults, derr, appended, sem, wg, ch, launched, nbatches, seen,
                   count, discovered, stdout, stderr>>

----------------------------------------------------------------------------
(* main.go: main, aggregator *)

\* AggregateBatch without count++
RECURSIVE AggregateBatchNoCount(_, _, _, _)
AggregateBatchNoCount(st, name, srvs, print) ==
    IF Len(srvs) = 0 THEN st
    ELSE LET srv == Head(srvs)
             key == buildKey(srv.Hostname, srv.Address, srv.Port)
             line == buildOutputLine(mainSelectedFields, st.count, name, srv.Hostname,
                                     srv.Address, srv.Port, srv.Text)
             st1 == IF key \in st.seen THEN st
                    ELSE [seen |-> st.seen \cup {key},
                          count |-> st.count,
                          discovered |-> Append(st.discovered, [srv EXCEPT !.ServiceType = name]),
                          lines |-> IF print THEN Append(st.lines, [kind |-> "line", parts |-> line])
                                    ELSE st.lines,
                          warns |-> st.warns]
         IN AggregateBatchNoCount(st1, name, Tail(srvs), print)

\* AggregateBatch where a record seen before replaces the one in discovered
RECURSIVE AggregateBatchLastWins(_, _, _, _)
AggregateBatchLastWins(st, name, srvs, print) ==
    IF Len(srvs) = 0 THEN st
    ELSE LET srv == Head(srvs)
             key == buildKey(srv.Hostname, srv.Address, srv.Port)
             new == [srv EXCEPT !.ServiceType = name]
             line == buildOutputLine(mainSelectedFields, st.count + 1, name, srv.Hostname,
                                     srv.Address, srv.Port, srv.Text)
             st1 == IF key \in st.seen
                    THEN [st EXCEPT !.discovered =
                            [i \in 1..Len(st.discovered) |->
                                IF buildKey(st.discovered[i].Hostname, st.discovered[i].Address,
                                            st.discovered[i].Port) = key
                                THEN new ELSE st.discovered[i]]]
                    ELSE [seen |-> st.seen \cup {key},
                          count |-> st.count + 1,
                          discovered |-> Append(st.discovered, new),
                          lines |-> IF print THEN Append(st.lines, [kind |-> "line", parts |-> line])
                                    ELSE st.lines,
                          warns |-> st.warns]
         IN AggregateBatchLastWins(st1, name, Tail(srvs), print)

\* AggregateBatch without the test of seen
RECURSIVE AggregateBatchNoSeen(_, _, _, _)
AggregateBatchNoSeen(st, name, srvs, print) ==
    IF Len(srvs) = 0 THEN st
    ELSE LET srv == Head(srvs)
             key == buildKey(srv.Hostname, srv.Address, srv.Port)
             st1 == [seen |-> st.seen \cup {key},
                     count |-> st.count + 1,
                     discovered |-> Append(st.discovered, [srv EXCEPT !.ServiceType = name]),
                     lines |-> IF print
                               THEN Append(st.lines,
                                           [kind |-> "line",
                                            parts |-> buildOutputLine(mainSelectedFields,
                                                         st.count + 1, name, srv.Hostname,
                                                         srv.Address, srv.Port, srv.Text)])
                               ELSE st.lines,
                     warns |-> st.warns]
         IN AggregateBatchNoSeen(st1, name, Tail(srvs), print)

\* the loop for _, srv := range b.services over the services srvs of batch b;
\* st holds seen, count, discovered and the lines printed
RECURSIVE AggregateBatch(_, _, _, _)
AggregateBatch(st, name, srvs, print) ==
    IF Len(srvs) = 0 THEN st
    ELSE LET srv == Head(srvs)
             key == buildKey(srv.Hostname, srv.Address, srv.Port)
             line == buildOutputLine(mainSelectedFields, st.count + 1, name, srv.Hostname,
                                     srv.Address, srv.Port, srv.Text)
             st1 == IF key \in st.seen THEN st
                    ELSE [seen |-> st.seen \cup {key},
                          count |-> st.count + 1,
                          discovered |-> Append(st.discovered, [srv EXCEPT !.ServiceType = name]),
                          lines |-> IF print THEN Append(st.lines, [kind |-> "line", parts |-> line])
                                    ELSE st.lines,
                          warns |-> st.warns]
         IN AggregateBatch(st1, name, Tail(srvs), print)

\* ProcessBatch that takes the first record of a batch and leaves the rest
ProcessBatchFirstOnly(st, b, print) ==
    IF b.err # errNil
    THEN [st EXCEPT !.warns = Append(@, [kind |-> "warn", name |-> b.name, err |-> b.err])]
    ELSE AggregateBatch(st, b.name,
                        IF Len(b.services) = 0 THEN << >> ELSE <<Head(b.services)>>, print)

\* the body of for b := range ch for the batch b: the warning and continue on an
\* error, else the loop over b.services
ProcessBatch(st, b, print) ==
    IF b.err # errNil
    THEN [st EXCEPT !.warns = Append(@, [kind |-> "warn", name |-> b.name, err |-> b.err])]
    ELSE AggregateBatch(st, b.name, b.services, print)

\* AggReceive with break in place of continue on an error
AggReceiveBreak ==
    /\ mainPc = "aggregate"
    /\ Len(ch) > 0
    /\ ch' = Tail(ch)
    /\ nbatches' = nbatches + 1
    /\ LET st == ProcessBatch([seen |-> seen, count |-> count, discovered |-> discovered,
                               lines |-> << >>, warns |-> << >>],
                              Head(ch), printResults /\ outputMode = OutputText)
       IN /\ seen' = st.seen
          /\ count' = st.count
          /\ discovered' = st.discovered
          /\ stdout' = stdout \o st.lines
          /\ stderr' = stderr \o st.warns
    /\ mainPc' = IF Head(ch).err # errNil THEN "output" ELSE mainPc
    /\ UNCHANGED <<envVars, fieldVars, effectiveTimeout, applied, serviceFilter, services, maxConcurrentDiscover, outputMode,
                   exitCode, pc, invocations, expired, closed, collected, seenLocal,
                   nresults, derr, appended, sem, wg, chClosed, closerPc, launched>>

\* one iteration of for b := range ch
AggReceive ==
    /\ mainPc = "aggregate"
    /\ Len(ch) > 0
    /\ ch' = Tail(ch)
    /\ nbatches' = nbatches + 1
    /\ LET st == ProcessBatch([seen |-> seen, count |-> count, discovered |-> discovered,
                               lines |-> << >>, warns |-> << >>],
                              Head(ch), printResults /\ outputMode = OutputText)
       IN /\ seen' = st.seen
          /\ count' = st.count
          /\ discovered' = st.discovered
          /\ stdout' = stdout \o st.lines
          /\ stderr' = stderr \o st.warns
    /\ UNCHANGED <<envVars, fieldVars, effectiveTimeout, applied, serviceFilter, services, maxConcurrentDiscover, outputMode, mainPc,
                   exitCode, pc, invocations, expired, closed, collected, seenLocal,
                   nresults, derr, appended, sem, wg, chClosed, closerPc, launched>>

\* for b := range ch ends: ch is closed and drained
AggEnd ==
    /\ mainPc = "aggregate"
    /\ Len(ch) = 0
    /\ chClosed
    /\ mainPc' = "output"
    /\ UNCHANGED <<envVars, fieldVars, effectiveTimeout, applied, serviceFilter, services, maxConcurrentDiscover, outputMode, exitCode,
                   pc, invocations, expired, closed, collected, seenLocal, nresults,
                   derr, appended, sem, wg, ch, chClosed, closerPc, launched,
                   nbatches, seen, count, discovered, stdout, stderr>>

----------------------------------------------------------------------------
(* main.go: main, output *)

\* strconv.AppendInt(n, 10) for n >= 0, as encoding/json writes an int
RECURSIVE FormatInt(_)
FormatInt(n) == IF n < 10 THEN <<DigitOf(n)>> ELSE Append(FormatInt(n \div 10), DigitOf(n % 10))

\* encoding/json, the body of a string literal: a quote and a backslash get a
\* backslash, "<" becomes the escape u003c (MarshalIndent escapes HTML)
RECURSIVE EscapeString(_)
EscapeString(s) ==
    IF Len(s) = 0 THEN << >>
    ELSE (IF Head(s) \in {"\"", "\\"} THEN <<"\\", Head(s)>>
          ELSE IF Head(s) = "<" THEN <<"\\", "u003c">>
          ELSE <<Head(s)>>) \o EscapeString(Tail(s))

\* encoding/json, the string a literal's body stands for
RECURSIVE UnescapeString(_)
UnescapeString(e) ==
    IF Len(e) = 0 THEN << >>
    ELSE IF Head(e) = "\\" /\ Len(e) > 1
         THEN <<IF e[2] = "u003c" THEN "<" ELSE e[2]>> \o UnescapeString(Tail(Tail(e)))
         ELSE <<Head(e)>> \o UnescapeString(Tail(e))

\* the JSON object of a map[string]string: its members
MarshalMap(m) ==
    {[name |-> EscapeString(k), string |-> EscapeString(m[k])] : k \in DOMAIN m}

\* MarshalService that leaves txtMap out of every object
MarshalServiceNoMap(srv) ==
    (IF srv.ServiceType # "" THEN <<[name |-> "service", string |-> EscapeString(Pieces(srv.ServiceType))]>>
     ELSE << >>)
    \o <<[name |-> "hostname", string |-> EscapeString(Pieces(srv.Hostname))],
         [name |-> "address", string |-> EscapeString(Pieces(srv.Address))],
         [name |-> "port", number |-> FormatInt(srv.Port)],
         [name |-> "text", string |-> EscapeString(srv.Text)]>>

\* the JSON object of a Service, its members in the order of the struct: service
\* and txtMap are omitempty
MarshalService(srv) ==
    (IF srv.ServiceType # "" THEN <<[name |-> "service", string |-> EscapeString(Pieces(srv.ServiceType))]>>
     ELSE << >>)
    \o <<[name |-> "hostname", string |-> EscapeString(Pieces(srv.Hostname))],
         [name |-> "address", string |-> EscapeString(Pieces(srv.Address))],
         [name |-> "port", number |-> FormatInt(srv.Port)],
         [name |-> "text", string |-> EscapeString(srv.Text)]>>
    \o (IF Cardinality(DOMAIN srv.TxtMap) > 0
        THEN <<[name |-> "txtMap", object |-> MarshalMap(srv.TxtMap)]>>
        ELSE << >>)

\* json.Unmarshal into a map[string]string
UnmarshalMap(members) ==
    [k \in {UnescapeString(mem.name) : mem \in members} |->
        UnescapeString((CHOOSE mem \in members : UnescapeString(mem.name) = k).string)]

\* json.Unmarshal into a Service: the members set their fields of the zero Service
RECURSIVE UnmarshalService(_, _)
UnmarshalService(obj, srv) ==
    IF Len(obj) = 0 THEN srv
    ELSE LET mem == Head(obj)
             set == CASE mem.name = "service" -> [srv EXCEPT !.ServiceType = Whole(UnescapeString(mem.string))]
                      [] mem.name = "hostname" -> [srv EXCEPT !.Hostname = Whole(UnescapeString(mem.string))]
                      [] mem.name = "address" -> [srv EXCEPT !.Address = Whole(UnescapeString(mem.string))]
                      [] mem.name = "port" -> [srv EXCEPT !.Port = DecimalValue(mem.number)]
                      [] mem.name = "text" -> [srv EXCEPT !.Text = UnescapeString(mem.string)]
                      [] mem.name = "txtMap" -> [srv EXCEPT !.TxtMap = UnmarshalMap(mem.object)]
                      [] OTHER -> srv
         IN UnmarshalService(Tail(obj), set)

\* the zero value of Service
ZeroService ==
    [ServiceType |-> "", Hostname |-> "", Address |-> "", Port |-> 0, Text |-> << >>,
     TxtMap |-> NilMap]

\* json.MarshalIndent(discovered, "", "  "): a nil slice encodes as null
MarshalIndent(d) ==
    IF d = NilSlice THEN [kind |-> "json", null |-> TRUE, array |-> << >>]
    ELSE [kind |-> "json", null |-> FALSE,
          array |-> [i \in 1..Len(d) |-> MarshalService(d[i])]]

\* json.Unmarshal(data, &list) into a []Service
Unmarshal(data) ==
    IF data.null THEN NilSlice
    ELSE [i \in 1..Len(data.array) |-> UnmarshalService(data.array[i], ZeroService)]

\* if outputMode == OutputJSON { ... fmt.Println(string(data)); return } else if
\* len(discovered) == 0 { the hint on stderr }; main returns
MainOutput ==
    /\ mainPc = "output"
    /\ stdout' = IF outputMode = OutputJSON THEN Append(stdout, MarshalIndent(discovered))
                 ELSE stdout
    /\ stderr' = IF outputMode # OutputJSON /\ Len(discovered) = 0
                 THEN Append(stderr, [kind |-> "hint", name |-> "", err |-> errNil])
                 ELSE stderr
    /\ mainPc' = "done"
    /\ exitCode' = exitOK
    /\ UNCHANGED <<envVars, fieldVars, effectiveTimeout, applied, serviceFilter, services, maxConcurrentDiscover, outputMode, pc,
                   invocations, expired, closed, collected, seenLocal, nresults, derr,
                   appended, sem, wg, ch, chClosed, closerPc, launched, nbatches,
                   seen, count, discovered>>

----------------------------------------------------------------------------
(* The run *)

Next ==
    \/ MainFlags
    \/ MainBegin
    \/ MainSingleReturn
    \/ MainLaunch
    \/ MainStartCloser
    \/ AggReceive
    \/ AggEnd
    \/ MainOutput
    \/ CloserClose
    \/ \E c \in Calls : DiscoverStart(c)
    \/ \E c \in Calls : DeadlineExpire(c)
    \/ \E c \in Calls : ResolverClose(c)
    \/ \E c \in Calls : SelectDone(c)
    \/ \E c \in Calls : SelectClosed(c)
    \/ \E c \in Calls, entry \in RawEntries : SelectEntry(c, entry)
    \/ \E w \in Calls : WorkerAcquire(w)
    \/ \E w \in Calls : WorkerSend(w)
    \/ \E w \in Calls : WorkerReturn(w)

Spec == Init /\ [][Next]_vars

\* the same program in every environment
EnvSpec == EnvInit /\ [][Next]_vars

\* the same program with every setting of the concurrency
ConcurrencySpec == ConcurrencyInit /\ [][Next]_vars

\* parseTXT applied to a TXT list
ApplyParseTXT ==
    /\ applied = NoCall
    /\ \E txt \in SeqsUpTo(TXTSegments, MaxTXT) :
          applied' = [fn |-> "parseTXT", txt |-> txt,
                      joined |-> parseTXT(txt).joined, m |-> parseTXT(txt).m]
    /\ UNCHANGED <<envVars, fieldVars, effectiveTimeout, serviceFilter, services,
                   maxConcurrentDiscover, outputMode, mainPc, exitCode, pc, invocations,
                   expired, closed, collected, seenLocal, nresults, derr, appended, sem,
                   wg, ch, chClosed, closerPc, launched, nbatches, seen, count,
                   discovered, stdout, stderr>>

\* buildOutputLine applied to the selection normalizeOutputFields makes of a list
\* of field names, for a record with or without text
ApplyBuildOutputLine ==
    /\ applied = NoCall
    /\ \E fields \in SeqsUpTo(RawNames, MaxFields), seq \in 1..2,
          txt \in {<< >>, <<"f", "v", "=", "q">>} :
          applied' = [fn |-> "buildOutputLine", fields |-> fields, seq |-> seq,
                      serviceName |-> "_ssh._tcp", host |-> "host.local.",
                      addr |-> "10.0.0.5", port |-> 22, txt |-> txt,
                      parts |-> buildOutputLine(normalizeOutputFields(fields).selected,
                                                seq, "_ssh._tcp", "host.local.",
                                                "10.0.0.5", 22, txt)]
    /\ UNCHANGED <<envVars, fieldVars, effectiveTimeout, serviceFilter, services,
                   maxConcurrentDiscover, outputMode, mainPc, exitCode, pc, invocations,
                   expired, closed, collected, seenLocal, nresults, derr, appended, sem,
                   wg, ch, chClosed, closerPc, launched, nbatches, seen, count,
                   discovered, stdout, stderr>>

\* The records given to json.MarshalIndent: with and without service type, port 0
\* and 5353, the text and the map parseTXT makes of a TXT list
JSONRecords ==
    { [ServiceType |-> svc, Hostname |-> "host.local.", Address |-> "10.0.0.5",
       Port |-> port, Text |-> parseTXT(txt).joined, TxtMap |-> parseTXT(txt).m] :
      svc \in {"", "_ssh._tcp"}, port \in {0, 5353}, txt \in JSONTexts }

\* normalizeOutputFields applied to a list of field names, then to the list it
\* returned, and buildOutputLine to the selection, for a record with text
ApplyNormalizeOutputFields ==
    /\ applied = NoCall
    /\ \E fields \in SeqsUpTo(RawNames, MaxFields) :
          LET first == normalizeOutputFields(fields)
              second == normalizeOutputFields(RawList(first.ordered))
          IN applied' = [fn |-> "normalizeOutputFields", fields |-> fields,
                         ordered |-> first.ordered, selected |-> first.selected,
                         ordered2 |-> second.ordered, selected2 |-> second.selected,
                         parts |-> buildOutputLine(first.selected, 1, "_ssh._tcp",
                                                   "host.local.", "10.0.0.5", 22,
                                                   <<"f", "v", "=", "q">>)]
    /\ UNCHANGED <<envVars, fieldVars, effectiveTimeout, serviceFilter, services,
                   maxConcurrentDiscover, outputMode, mainPc, exitCode, pc, invocations,
                   expired, closed, collected, seenLocal, nresults, derr, appended, sem,
                   wg, ch, chClosed, closerPc, launched, nbatches, seen, count,
                   discovered, stdout, stderr>>

\* json.MarshalIndent applied to a list of records, and json.Unmarshal to the
\* document it gives
ApplyMarshalIndent ==
    /\ applied = NoCall
    /\ \E list \in SeqsUpTo(JSONRecords, MaxRecords) :
          applied' = [fn |-> "MarshalIndent", list |-> list, data |-> MarshalIndent(list),
                      decoded |-> Unmarshal(MarshalIndent(list))]
    /\ UNCHANGED <<envVars, fieldVars, effectiveTimeout, serviceFilter, services,
                   maxConcurrentDiscover, outputMode, mainPc, exitCode, pc, invocations,
                   expired, closed, collected, seenLocal, nresults, derr, appended, sem,
                   wg, ch, chClosed, closerPc, launched, nbatches, seen, count,
                   discovered, stdout, stderr>>

\* the functions of service.go, applied outside a run
FnInit ==
    /\ Init
    /\ serviceFilter = ""
    /\ Len(services) = 0
    /\ concurrencyFlag = <<"1">>
    /\ outputMode = OutputText

FnNext ==
    \/ ApplyParseTXT
    \/ ApplyBuildOutputLine
    \/ ApplyMarshalIndent
    \/ ApplyNormalizeOutputFields

FnSpec == FnInit /\ [][FnNext]_vars

\* discover panics in the goroutine of worker w: the goroutine has no recover, so
\* its deferred calls run (<-sem, wg.Done()), nothing is sent on ch, and the
\* runtime writes the panic to stderr and ends the process, with every goroutine
\* in it, with status 2
WorkerPanic(w) ==
    /\ w \in Workers
    /\ pc[w] \in {"start", "loop"}
    /\ sem' = sem - 1
    /\ wg' = wg - 1
    /\ pc' = [c \in Calls |-> IF c = w THEN "panicked"
                              ELSE IF pc[c] \in {"none", "end"} THEN pc[c]
                              ELSE "killed"]
    /\ closerPc' = IF closerPc = "wait" THEN "killed" ELSE closerPc
    /\ mainPc' = "crashed"
    /\ exitCode' = 2
    /\ stderr' = Append(stderr, [kind |-> "panic", name |-> services[w], err |-> errOther])
    /\ UNCHANGED <<envVars, fieldVars, effectiveTimeout, applied, serviceFilter, services,
                   maxConcurrentDiscover, outputMode, invocations, expired, closed,
                   collected, seenLocal, nresults, derr, appended, ch, chClosed,
                   launched, nbatches, seen, count, discovered, stdout>>

PanicNext ==
    \/ Next
    \/ \E w \in Calls : WorkerPanic(w)

\* the program with queries that may panic
PanicSpec == Init /\ [][PanicNext]_vars

\* What the scheduler and the timers guarantee: every goroutine that can take a step
\* eventually takes one, every deadline passes, and a select whose ctx.Done() is
\* ready does not go on receiving entries for ever.
Fairness ==
    /\ WF_vars(MainFlags \/ MainBegin \/ MainSingleReturn \/ MainLaunch \/ MainStartCloser
               \/ AggReceive \/ AggEnd \/ MainOutput)
    /\ WF_vars(CloserClose)
    /\ \A c \in Calls : WF_vars(DeadlineExpire(c))
    /\ \A c \in Calls : WF_vars(DiscoverStart(c) \/ SelectDone(c) \/ SelectClosed(c))
    /\ \A c \in Calls : WF_vars(WorkerAcquire(c) \/ WorkerSend(c) \/ WorkerReturn(c))

FairSpec == Init /\ [][Next]_vars /\ Fairness

----------------------------------------------------------------------------
(* Properties *)

MultiService == serviceFilter = ""
Terminated == mainPc \in {"done", "exited"}
AggregatorEnded == mainPc \in {"output", "done"}

\* the workers between acquiring a slot and releasing it
InFlight == {w \in Workers : pc[w] \in {"start", "loop", "ret", "deferred"}}

\* the (hostname, address, port) of a record
KeyOf(srv) == <<srv.Hostname, srv.Address, srv.Port>>
KeysOf(list) == {KeyOf(list[i]) : i \in 1..Len(list)}
NoDuplicates(list) ==
    \A i, j \in 1..Len(list) : i # j => KeyOf(list[i]) # KeyOf(list[j])

\* the step is an iteration of the aggregator loop
AggStep == nbatches' = nbatches + 1

\* the keys the batch at the head of ch brings that the aggregated list lacks
NewKeys == IF Head(ch).err = errNil THEN KeysOf(Head(ch).services) \ KeysOf(discovered)
           ELSE {}

\* C1: the workers holding a slot are never more than the concurrency limit, the
\* semaphore counts exactly them, and a worker whose query has started or runs is
\* one of them or has released its slot after sending.
C1_BoundedInFlight ==
    /\ Cardinality(InFlight) <= maxConcurrentDiscover
    /\ sem = Cardinality(InFlight)
    /\ \A w \in Workers : invocations[w] > 0 => pc[w] \in {"loop", "ret", "deferred", "end"}
    /\ \A w \in Calls : pc[w] \in {"start", "loop", "ret"} /\ w # 0 => w \in InFlight

C1_Witness ==
    /\ Len(services) > maxConcurrentDiscover
    /\ sem = maxConcurrentDiscover
    /\ \E w \in Workers : pc[w] = "acquire"
    /\ \E w \in Workers : pc[w] = "loop"

\* C2: the aggregated list never holds two records with the same (hostname,
\* address, port); an iteration of the aggregator appends one record per key of
\* its batch that the list lacks, after the records it held, and adds as much to
\* the seen-set and to count: a batch of keys already seen changes none of them.
C2_GlobalDedup ==
    /\ [](/\ NoDuplicates(discovered)
          /\ MultiService => count = Len(discovered) /\ Cardinality(seen) = Len(discovered))
    /\ [][AggStep =>
            /\ Len(discovered') = Len(discovered) + Cardinality(NewKeys)
            /\ SubSeq(discovered', 1, Len(discovered)) = discovered
            /\ count' = count + Cardinality(NewKeys)
            /\ Cardinality(seen') = Cardinality(seen) + Cardinality(NewKeys)
            /\ (NewKeys = {} => discovered' = discovered /\ seen' = seen /\ count' = count)]_vars

C2_Witness ==
    /\ MultiService
    /\ mainPc = "done"
    /\ appended = 2
    /\ Len(discovered) = 1
    /\ Len(stderr) = 0

\* C3: the result channel is closed only when every worker has sent and returned,
\* and when the aggregator loop has ended it has processed one message per catalog
\* entry and the channel is empty.
C3_AllReported ==
    /\ chClosed => \A w \in Workers : pc[w] = "end"
    /\ MultiService /\ AggregatorEnded =>
          /\ nbatches = Len(services)
          /\ Len(ch) = 0
          /\ chClosed

C3_Witness ==
    /\ MultiService
    /\ mainPc = "output"
    /\ Len(services) = 2
    /\ nbatches = 2

\* C4: under Fairness a multi-service run ends: the result channel is closed, main
\* returns, and every worker has run its query exactly once; a parked worker gets
\* its slot; no query is ever entered twice.
C4_Terminates ==
    /\ [](\A c \in Calls : invocations[c] <= 1)
    /\ \A w \in Calls : (pc[w] = "acquire") ~> (pc[w] = "start")
    /\ MultiService =>
          <>(/\ mainPc = "done"
             /\ chClosed
             /\ \A w \in Workers : invocations[w] = 1 /\ pc[w] = "end")

C4_Witness ==
    /\ MultiService
    /\ mainPc = "done"
    /\ Len(services) > maxConcurrentDiscover
    /\ \A w \in Workers : invocations[w] = 1

\* C5: whatever queries fail, when the aggregator loop has ended every catalog
\* entry has been queried once and every result processed; an iteration of the
\* loop on a batch without error leaves every key of the batch in the aggregated
\* list, and no iteration removes or changes a record.
C5_FailureIsolation ==
    /\ [](MultiService /\ AggregatorEnded =>
            /\ \A w \in Workers : invocations[w] = 1
            /\ nbatches = Len(services))
    /\ [][AggStep =>
            /\ (Head(ch).err = errNil => KeysOf(Head(ch).services) \subseteq KeysOf(discovered'))
            /\ SubSeq(discovered', 1, Len(discovered)) = discovered
            /\ mainPc' = mainPc]_vars

C5_Witness ==
    /\ MultiService
    /\ mainPc = "done"
    /\ \E i \in 1..Len(stderr) : stderr[i].kind = "warn"
    /\ Len(discovered) > 0

\* C6: a multi-service run ends with exit code 0 when the catalog is not empty,
\* whatever queries failed, and with another exit code when the catalog is empty.
C6_OnlyEmptyCatalogFatal ==
    MultiService /\ Terminated =>
        /\ (Len(services) > 0 => exitCode = 0)
        /\ (Len(services) = 0 => exitCode # 0)

\* the part of C6 about failed queries: with a catalog that is not empty the run
\* ends with exit code 0
NoFailureIsFatal ==
    MultiService /\ Terminated /\ Len(services) > 0 => exitCode = 0 /\ mainPc = "done"

C8_EmptyCatalogFails ==
    MultiService /\ Len(services) = 0 /\ Terminated =>
        /\ \A c \in Calls : invocations[c] = 0 /\ pc[c] = "none"
        /\ exitCode # exitOK

\* C9: a query that returns when its deadline has expired and its batch is empty
\* returns errTimedOutZero.
C9_TimedOutZero ==
    [][\A c \in Calls :
          pc[c] = "loop" /\ expired[c] /\ Len(collected[c]) = 0 /\ pc'[c] = "ret"
              => derr'[c] = errTimedOutZero]_vars

\* C10: a query that returns when its deadline has expired and its batch is not
\* empty returns the batch as it is, with no error; errTimedOutZero never comes
\* with a record, from discover or on the result channel.
C10_PartialIsSuccess ==
    /\ [](/\ \A c \in Calls : pc[c] = "ret" /\ derr[c] = errTimedOutZero
                                  => Len(collected[c]) = 0
          /\ \A i \in 1..Len(ch) : ch[i].err = errTimedOutZero => Len(ch[i].services) = 0)
    /\ [][\A c \in Calls :
            pc[c] = "loop" /\ expired[c] /\ Len(collected[c]) > 0 /\ pc'[c] = "ret"
                => derr'[c] = errNil /\ collected'[c] = collected[c]]_vars

C10_Witness ==
    \E c \in Calls :
        /\ pc[c] = "loop"
        /\ expired[c]
        /\ ~closed[c]
        /\ Len(collected[c]) = 2

\* the items of kind k written to the stream out
Written(out, k) == {i \in 1..Len(out) : out[i].kind = k}

\* C11: without debug, processing a batch with errTimedOutZero writes nothing to
\* stdout or stderr and a query ending with errTimedOutZero writes nothing; processing
\* a batch with another error writes one line to stderr and nothing to stdout.
C11_SilentTimeouts ==
    [][~debug =>
         /\ AggStep /\ Head(ch).err = errTimedOutZero => stderr' = stderr /\ stdout' = stdout
         /\ AggStep /\ Head(ch).err \notin {errNil, errTimedOutZero} =>
               /\ Len(stderr') = Len(stderr) + 1
               /\ stdout' = stdout
         /\ \A c \in Calls : pc[c] = "loop" /\ pc'[c] = "ret" /\ derr'[c] = errTimedOutZero
               => stderr' = stderr /\ stdout' = stdout]_vars

\* the part of C11 about the other failures, and the line a batch with
\* errTimedOutZero gets as well
EveryFailureWarns ==
    [][AggStep /\ Head(ch).err # errNil =>
         /\ stderr' = Append(stderr, [kind |-> "warn", name |-> Head(ch).name,
                                       err |-> Head(ch).err])
         /\ stdout' = stdout]_vars

\* C12: in JSON mode a run that has passed the output step has written one JSON
\* document to stdout, an array holding the aggregated records, empty when there
\* are none.
C12_OneJSONArray ==
    outputMode = OutputJSON /\ mainPc = "done" =>
        /\ Cardinality(Written(stdout, "json")) = 1
        /\ \A i \in Written(stdout, "json") :
              /\ ~stdout[i].null
              /\ Unmarshal(stdout[i]) = discovered

\* the part of C12 that holds: one JSON document, the array of the records when
\* there is one
OneJSONDocument ==
    outputMode = OutputJSON /\ mainPc = "done" =>
        /\ Cardinality(Written(stdout, "json")) = 1
        /\ \A i \in Written(stdout, "json") :
              /\ stdout[i].null <=> Len(discovered) = 0
              /\ Unmarshal(stdout[i]) = discovered

\* C13: in JSON mode stdout never gets a line of a record nor the line "Showing:",
\* it is empty as long as main runs, and the JSON document is the one thing
\* written there, by a main that has left the aggregator loop after every worker
\* has sent and returned and the channel was closed and drained.
C13_JSONBuffered ==
    outputMode = OutputJSON =>
        /\ Written(stdout, "line") = {} /\ Written(stdout, "showing") = {}
        /\ mainPc \notin {"done", "exited"} => stdout = << >>
        /\ Written(stdout, "json") # {} =>
              /\ Len(stdout) = 1
              /\ mainPc = "done"
              /\ MultiService =>
                    /\ chClosed /\ Len(ch) = 0
                    /\ nbatches = Len(services)
                    /\ \A w \in Workers : pc[w] = "end"
              /\ ~MultiService => pc[0] = "end"

C13_Witness ==
    /\ outputMode = OutputJSON
    /\ debug
    /\ mainPc = "done"
    /\ Len(discovered) > 0
    /\ Written(stdout, "json") = {1}

\* the records of the aggregated list attributed to service type t
TypeCount(t) == Cardinality({i \in 1..Len(discovered) : discovered[i].ServiceType = t})

\* the sum of TypeCount over the service types names
RECURSIVE SumTypeCounts(_)
SumTypeCounts(names) ==
    IF Len(names) = 0 THEN 0 ELSE TypeCount(Head(names)) + SumTypeCounts(Tail(names))

\* C14: at every moment of a multi-service run the length of the aggregated list
\* is the sum over the catalog of the records attributed to each service type and
\* is count; every record appended by the aggregator is attributed to the service
\* type of the batch it came in. In a single-service run every record is
\* attributed to the filter and the query's counter is the length of its batch.
C14_CountsAgree ==
    /\ [](MultiService =>
            /\ Len(discovered) = SumTypeCounts(services)
            /\ Len(discovered) = count)
    /\ [](~MultiService =>
            /\ Len(discovered) = TypeCount(serviceFilter)
            /\ pc[0] \in {"loop", "ret"} => nresults[0] = Len(collected[0]))
    /\ [][AggStep =>
            \A i \in (Len(discovered) + 1)..Len(discovered') :
                discovered'[i].ServiceType = Head(ch).name]_vars

C14_Witness ==
    /\ MultiService
    /\ mainPc = "done"
    /\ Len(services) = 2
    /\ TypeCount(services[1]) = 1
    /\ TypeCount(services[2]) = 1
    /\ count = 2

\* C16: an iteration of the aggregator loop leaves every record of the aggregated
\* list as it is, and what it appends are records of its batch, with the batch's
\* service type, whose key the list lacked: an instance two queries return is in
\* the list once, as the batch dequeued first had it.
C16_FirstWins ==
    /\ []NoDuplicates(discovered)
    /\ [][AggStep =>
            /\ Len(discovered') >= Len(discovered)
            /\ \A i \in 1..Len(discovered') :
                  IF i <= Len(discovered)
                  THEN discovered'[i] = discovered[i]
                  ELSE /\ KeyOf(discovered'[i]) \notin KeysOf(discovered)
                       /\ \E j \in 1..Len(Head(ch).services) :
                             discovered'[i] = [Head(ch).services[j]
                                                  EXCEPT !.ServiceType = Head(ch).name]]_vars

\* the list has a record of the instance and the batch to dequeue next brings it
\* again from another query, with another text
C16_Witness ==
    /\ mainPc = "aggregate"
    /\ Len(ch) > 0
    /\ Head(ch).err = errNil
    /\ \E i \in 1..Len(discovered), j \in 1..Len(Head(ch).services) :
          /\ KeyOf(discovered[i]) = KeyOf(Head(ch).services[j])
          /\ discovered[i].ServiceType # Head(ch).name
          /\ discovered[i].Text # Head(ch).services[j].Text
          /\ discovered[i].TxtMap # Head(ch).services[j].TxtMap

\* C17: when the query of a worker has panicked, the process goes on and a message
\* with the worker's service type is on the result channel.
C17_PanicReported ==
    \A w \in Workers :
        pc[w] = "panicked" =>
            /\ mainPc # "crashed"
            /\ \E i \in 1..Len(ch) : ch[i].name = services[w]

\* segment seg is a pair key=value: it has an "=" and something before the first one
IsPair(seg) == \E i \in 2..Len(seg) : seg[i] = "=" /\ \A j \in 1..(i - 1) : seg[j] # "="
EqAt(seg) == CHOOSE i \in 1..Len(seg) : seg[i] = "=" /\ \A j \in 1..(i - 1) : seg[j] # "="
PairKey(seg) == SubSeq(seg, 1, EqAt(seg) - 1)
PairValue(seg) == SubSeq(seg, EqAt(seg) + 1, Len(seg))

\* where segment k of txt starts in the joined string, less one
RECURSIVE SegmentOffset(_, _)
SegmentOffset(txt, k) ==
    IF k = 1 THEN 0 ELSE SegmentOffset(txt, k - 1) + Len(txt[k - 1]) + 1

\* C18: the line buildOutputLine makes of the selection of a list of field names
\* is the values of the selected fields among count, service, hostname, address,
\* port, text, in that order, the text only when it is not empty; the selection
\* hostname and port, in either order, gives the hostname and the port alone.
C18_CanonicalLine ==
    applied.fn = "buildOutputLine" =>
        LET names == {TrimSpace(applied.fields[i]) : i \in 1..Len(applied.fields)} \ {""}
            sel == IF Len(applied.fields) = 0 THEN DefaultFields ELSE names
            value == [f \in DefaultFields |->
                        CASE f = "count" -> ToString(applied.seq)
                          [] f = "service" -> applied.serviceName
                          [] f = "hostname" -> applied.host
                          [] f = "address" -> applied.addr
                          [] f = "port" -> ToString(applied.port)
                          [] f = "text" -> applied.txt]
            Shown(f) == f \in sel /\ (f = "text" => applied.txt # << >>)
            shown == SelectSeq(DefaultFieldList, Shown)
        IN /\ Len(applied.parts) = Len(shown)
           /\ \A i \in 1..Len(shown) : applied.parts[i] = value[shown[i]]
           /\ names = {"hostname", "port"} =>
                 applied.parts = <<applied.host, ToString(applied.port)>>

C18_Witness ==
    /\ applied.fn = "buildOutputLine"
    /\ applied.fields = << <<"port">>, <<" ", "hostname">> >>
    /\ applied.txt # << >>
    /\ applied.parts = <<"host.local.", "22">>

\* C19: the joined string of parseTXT holds the segments in order with a ";"
\* between two of them, and is empty for an empty list; the mapping has a key for
\* every segment that is a pair, and no other, with the value after the first "="
\* of the last segment with that key; it is the nil map when no segment is a pair.
C19_ParseTXT ==
    applied.fn = "parseTXT" =>
        LET txt == applied.txt
            joined == applied.joined
            m == applied.m
            pairs == {k \in 1..Len(txt) : IsPair(txt[k])}
        IN /\ Len(txt) = 0 => joined = << >> /\ m = NilMap
           /\ Len(txt) > 0 =>
                 Len(joined) = SegmentOffset(txt, Len(txt)) + Len(txt[Len(txt)])
           /\ \A k \in 1..Len(txt) :
                 /\ SubSeq(joined, SegmentOffset(txt, k) + 1,
                           SegmentOffset(txt, k) + Len(txt[k])) = txt[k]
                 /\ k > 1 => joined[SegmentOffset(txt, k)] = ";"
           /\ DOMAIN m = {PairKey(txt[k]) : k \in pairs}
           /\ \A k \in pairs :
                 (\A l \in pairs : l > k => PairKey(txt[l]) # PairKey(txt[k]))
                     => m[PairKey(txt[k])] = PairValue(txt[k])
           /\ pairs = {} => m = NilMap
           /\ txt = << <<"f", "v", "=", "p", "2", "0", ".", "1">>, <<"j", "u", "n", "k">> >> =>
                 /\ joined = <<"f", "v", "=", "p", "2", "0", ".", "1", ";", "j", "u", "n", "k">>
                 /\ m = [key \in {<<"f", "v">>} |-> <<"p", "2", "0", ".", "1">>]

C19_Witness ==
    /\ applied.fn = "parseTXT"
    /\ applied.txt = << <<"f", "v", "=", "p", "2", "0", ".", "1">>, <<"j", "u", "n", "k">> >>
    /\ DOMAIN applied.m = {<<"f", "v">>}

\* the durations among TimeoutInputs, in milliseconds
KnownDurations == { <<"5", "s">>, <<"1", "m">>, <<"0", "s">>, <<"-", "3", "s">> }
Milliseconds(s) ==
    CASE s = <<"5", "s">> -> 5000
      [] s = <<"1", "m">> -> 60000
      [] s = <<"0", "s">> -> 0
      [] s = <<"-", "3", "s">> -> 0 - 3000

\* C20: once the flags are read, the timeout of the queries is the duration of
\* --timeout when it is given, else that of MDNS_TIMEOUT when it is one, else 15 s;
\* a --timeout that is no duration ends the run with exit code 2 and no query
\* started; an MDNS_TIMEOUT that is no duration gets one warning on stderr and
\* does not end the run.
C20_TimeoutPrecedence ==
    mainPc # "flags" =>
        /\ timeoutFlag \in KnownDurations => effectiveTimeout = Milliseconds(timeoutFlag)
        /\ timeoutFlag = << >> /\ envTimeout \in KnownDurations
              => effectiveTimeout = Milliseconds(envTimeout)
        /\ timeoutFlag = << >> /\ envTimeout \notin KnownDurations
              => effectiveTimeout = 15000
        /\ timeoutFlag \notin KnownDurations \cup {<< >>} =>
              /\ mainPc = "exited"
              /\ exitCode = 2
              /\ \A c \in Calls : invocations[c] = 0 /\ pc[c] = "none"
        /\ timeoutFlag \in KnownDurations \cup {<< >>} => exitCode # 2
        /\ Cardinality(Written(stderr, "warning")) =
              IF envTimeout \notin KnownDurations \cup {<< >>} THEN 1 ELSE 0
        /\ Cardinality(Written(stderr, "usage")) =
              IF timeoutFlag \notin KnownDurations \cup {<< >>} THEN 1 ELSE 0

C20_Witness ==
    /\ timeoutFlag = <<"5", "s">>
    /\ envTimeout = <<"1", "m">>
    /\ effectiveTimeout = 5000
    /\ mainPc = "done"
    /\ \E c \in Calls : invocations[c] = 1

\* the integers the concurrency inputs stand for
IntegerInputs == { <<"3">>, <<"0">>, <<"-", "1">> }
IntegerOf(s) == CASE s = <<"3">> -> 3
                  [] s = <<"0">> -> 0
                  [] s = <<"-", "1">> -> 0 - 1
                  [] s = <<" ", "2">> -> 2
\* MDNS_CONCURRENCY is a positive integer, blanks around it aside
PositiveEnv == envConcurrency \in {<<"3">>, <<" ", "2">>}

\* C21: the capacity of the semaphore is always a positive integer; once the flags
\* are read and the run goes on it is the --concurrency flag when given, else
\* MDNS_CONCURRENCY when that is a positive integer, else 10; a --concurrency that
\* is not positive ends the run with exit code 2 and no query started.
C21_Capacity ==
    /\ maxConcurrentDiscover \in Nat \ {0}
    /\ sem <= maxConcurrentDiscover
    /\ mainPc # "flags" =>
        /\ concurrencyFlag \in IntegerInputs /\ IntegerOf(concurrencyFlag) > 0
              => /\ maxConcurrentDiscover = IntegerOf(concurrencyFlag)
                 /\ exitCode # 2
        /\ concurrencyFlag = << >> /\ PositiveEnv
              => /\ maxConcurrentDiscover = IntegerOf(envConcurrency)
                 /\ exitCode # 2
        /\ concurrencyFlag = << >> /\ ~PositiveEnv
              => /\ maxConcurrentDiscover = 10
                 /\ exitCode # 2
        /\ concurrencyFlag \in IntegerInputs /\ IntegerOf(concurrencyFlag) <= 0
              => /\ mainPc = "exited"
                 /\ exitCode = 2
                 /\ \A c \in Calls : invocations[c] = 0 /\ pc[c] = "none"
                 /\ sem = 0

C21_Witness ==
    /\ concurrencyFlag = << >>
    /\ envConcurrency = <<" ", "2">>
    /\ maxConcurrentDiscover = 2
    /\ MultiService
    /\ \E w \in Workers : pc[w] = "loop" /\ sem = 1

\* C22: with a filter set, the run makes one query, for the filter value, and none
\* for a catalog entry: no worker is launched, nothing is sent on the channel, and
\* when the query has returned without error the result list is its batch, the
\* same records in the same order.
C22_SingleQuery ==
    ~MultiService =>
        /\ NameOf(0) = serviceFilter
        /\ invocations[0] <= 1
        /\ \A w \in Workers : invocations[w] = 0 /\ pc[w] = "none"
        /\ launched = 0 /\ sem = 0 /\ wg = 0 /\ ch = << >> /\ nbatches = 0
        /\ \A i \in 1..Len(collected[0]) : collected[0][i].ServiceType = serviceFilter
        /\ mainPc \in {"output", "done"} =>
              /\ invocations[0] = 1
              /\ discovered = collected[0]
        /\ mainPc \notin {"output", "done"} => discovered = << >>

C22_Witness ==
    /\ ~MultiService
    /\ Len(services) = MaxCatalog
    /\ mainPc = "done"
    /\ Len(discovered) = 2
    /\ discovered = collected[0]

\* the names of the members of a JSON object
MemberNames(obj) == {obj[i].name : i \in 1..Len(obj)}

\* C23: decoding the JSON document of a list of records gives the list back, field
\* for field, the TXT mapping included; the object of a record has the member
\* service exactly when the service type is not empty, the member txtMap exactly
\* when the mapping has an entry, and always hostname, address, port and text.
C23_JSONRoundTrip ==
    applied.fn = "MarshalIndent" =>
        /\ applied.decoded = applied.list
        /\ Len(applied.list) > 0 =>
              /\ ~applied.data.null
              /\ Len(applied.data.array) = Len(applied.list)
        /\ \A i \in 1..Len(applied.list) :
              LET srv == applied.list[i]
                  names == MemberNames(applied.data.array[i])
              IN /\ {"hostname", "address", "port", "text"} \subseteq names
                 /\ "service" \in names <=> srv.ServiceType # ""
                 /\ "txtMap" \in names <=> srv.TxtMap # NilMap
                 /\ Len(applied.data.array[i]) = Cardinality(names)

C23_Witness ==
    /\ applied.fn = "MarshalIndent"
    /\ Len(applied.list) = 2
    /\ applied.list[1].ServiceType = "" /\ applied.list[1].TxtMap = NilMap
    /\ applied.list[1].Port = 0 /\ applied.list[1].Text = << >>
    /\ applied.list[2].ServiceType # ""
    /\ \E k \in DOMAIN applied.list[2].TxtMap : "\"" \in {applied.list[2].TxtMap[k][j] : j \in 1..Len(applied.list[2].TxtMap[k])}
    /\ applied.decoded = applied.list
    /\ applied.data.array[1] # applied.data.array[2]

\* C24: the TXT mapping of a record of a query's batch is the one parsed from the
\* entry whose text the record carries, the entry that produced it; an entry or
\* address dropped as a duplicate changes no record of the batch.
C24_TxtMapOfProducer ==
    \A c \in Calls : \A i \in 1..Len(collected[c]) :
        \E entry \in RawEntries :
            /\ collected[c][i].Hostname = entry.HostName
            /\ collected[c][i].Text = parseTXT(entry.Text).joined
            /\ collected[c][i].TxtMap = parseTXT(entry.Text).m

\* the position of the first occurrence of a in the sequence addrs
FirstAt(addrs, a) ==
    CHOOSE n \in 1..Len(addrs) : addrs[n] = a /\ \A m \in 1..(n - 1) : addrs[m] # a

\* the records new has after those of old come from entry: each of its addresses
\* that old lacks once, IPv4 before IPv6, in the order of the entry
SuffixOf(old, new, entry) ==
    LET addrs == entry.AddrIPv4 \o entry.AddrIPv6
        suffix == SubSeq(new, Len(old) + 1, Len(new))
    IN /\ \A i \in 1..Len(suffix) :
             /\ suffix[i].Hostname = entry.HostName
             /\ suffix[i].Port = entry.Port
             /\ \E n \in 1..Len(addrs) : addrs[n] = suffix[i].Address
             /\ KeyOf(suffix[i]) \notin KeysOf(old)
       /\ \A n \in 1..Len(addrs) : <<entry.HostName, addrs[n], entry.Port>> \in KeysOf(new)
       /\ \A i, j \in 1..Len(suffix) :
             i < j => FirstAt(addrs, suffix[i].Address) < FirstAt(addrs, suffix[j].Address)

\* C25: a step of a query leaves a batch without two records of one key, its
\* counter and its seen set as large as the batch, the records it had in place, and
\* what it adds are the addresses of one entry that the batch lacked, each once,
\* IPv4 before IPv6.
C25_LocalDedup ==
    [][\A c \in Calls :
          pc[c] = "loop" /\ pc'[c] = "loop" =>
              /\ NoDuplicates(collected'[c])
              /\ nresults'[c] = Len(collected'[c])
              /\ Cardinality(seenLocal'[c]) = Len(collected'[c])
              /\ Len(collected'[c]) >= Len(collected[c])
              /\ \A i \in 1..Len(collected[c]) :
                    KeyOf(collected'[c][i]) = KeyOf(collected[c][i])
              /\ Len(collected'[c]) > Len(collected[c]) =>
                    \E entry \in RawEntries : SuffixOf(collected[c], collected'[c], entry)]_vars

C25_Witness ==
    \E c \in Calls :
        /\ pc[c] = "loop"
        /\ Len(collected[c]) = 2
        /\ collected[c][1].Address = "10.0.0.5"
        /\ collected[c][1].Text = <<"f", "v", "=", "q">>
        /\ collected[c][2].Address = "fe80::1"
        /\ nresults[c] = 2

\* the entries without an IPv4 and without an IPv6 address
NoAddress == {entry \in RawEntries : entry.AddrIPv4 = << >> /\ entry.AddrIPv6 = << >>}

\* C26: whenever a query is in its loop, an entry without address leaves its batch,
\* its seen set and its counter as they are and prints no line, and the query
\* stays in the loop.
C26_NoAddressNoRecord ==
    \A c \in Calls :
        pc[c] = "loop" =>
            \A entry \in NoAddress :
                LET st == [collected |-> collected[c], seen |-> seenLocal[c],
                           nresults |-> nresults[c], lines |-> << >>]
                IN /\ HandleEntry(st, NameOf(c), entry, PrintsOf(c)) = st
                   /\ appended < MaxRecords /\ ~closed[c] => ENABLED SelectEntry(c, entry)

C26_Witness ==
    /\ NoAddress # {}
    /\ pc[0] = "loop"
    /\ PrintsOf(0)
    /\ Len(collected[0]) = 1
    /\ collected[0][1].TxtMap # NilMap
    /\ ~closed[0] /\ ~expired[0]
    /\ appended < MaxRecords

\* C27: a query whose stream the resolver has closed before the deadline passed
\* returns with no error and with the batch it had, also when the batch is empty.
C27_ClosedStream ==
    [][\A c \in Calls :
          pc[c] = "loop" /\ closed[c] /\ ~expired[c] /\ pc'[c] # "loop" =>
              /\ pc'[c] = "ret"
              /\ derr'[c] = errNil
              /\ collected'[c] = collected[c]]_vars

C27_Witness ==
    \E c \in Calls :
        /\ pc[c] = "loop"
        /\ closed[c]
        /\ ~expired[c]
        /\ collected[c] = << >>
        /\ ENABLED SelectClosed(c)

\* the workers that have sent their message
Sent == {w \in Workers : pc[w] \in {"deferred", "end"}}

\* C28: a worker leaves its query by sending one message with its own service
\* type, the slot and the wait group untouched by that step; the slot is released
\* and wg.Done() called only by a worker that has sent; the channel has carried as
\* many messages as workers have sent, and when it is closed one for every
\* catalog entry.
C28_OneMessageEach ==
    [][/\ \A w \in Calls :
             pc[w] = "ret" /\ pc'[w] # "ret" /\ w # 0 =>
                 /\ pc'[w] = "deferred"
                 /\ Len(ch') = Len(ch) + 1
                 /\ ch'[Len(ch')].name = services[w]
                 /\ ch'[Len(ch')].services = collected[w]
                 /\ ch'[Len(ch')].err = derr[w]
                 /\ sem' = sem /\ wg' = wg
       /\ Len(ch') > Len(ch) => \E w \in Workers : pc[w] = "ret" /\ pc'[w] = "deferred"
       /\ sem' < sem \/ wg' < wg =>
             \E w \in Workers : /\ pc[w] = "deferred" /\ pc'[w] = "end"
                                /\ sem' = sem - 1 /\ wg' = wg - 1
       /\ MultiService' => Len(ch') + nbatches' = Cardinality(Sent')
       /\ chClosed' => Len(ch') + nbatches' = Len(services)]_vars

C28_Witness ==
    /\ MultiService
    /\ Len(services) = 2
    /\ chClosed
    /\ Len(ch) = 1 /\ nbatches = 1
    /\ ch[1].name = services[1]
    /\ Sent = Workers

\* what a step changes of query c: its position, deadline, stream, error and batch
QueryState(c) == <<pc[c], expired[c], closed[c], derr[c], collected[c]>>

\* C29: a query gets its deadline when it starts, the whole timeout from then on,
\* and only a query in its loop has one running; a step that expires, ends or
\* fails one query leaves the deadline, the stream, the error and the batch of
\* every other query as they are.
C29_OwnDeadline ==
    [][\A c \in Calls :
          /\ expired'[c] => pc'[c] = "loop"
          /\ pc[c] = "start" /\ pc'[c] = "loop" => (expired'[c] <=> effectiveTimeout <= 0)
          /\ pc[c] # "loop" /\ pc'[c] # "loop" => ~expired'[c]
          /\ QueryState(c)' # QueryState(c) =>
                \A d \in Calls \ {c} : QueryState(d)' = QueryState(d)]_vars

C29_Witness ==
    \E c, d \in Workers :
        /\ pc[c] = "loop" /\ expired[c]
        /\ pc[d] = "loop" /\ ~expired[d]
        /\ effectiveTimeout > 0

\* the lines of records on stdout, in the order written
IsLine(item) == item.kind = "line"
RecordLines == SelectSeq(stdout, IsLine)

\* the records the run has seen for the first time, in that order: the aggregated
\* list, or the batch of the one query
FirstSeen == IF MultiService THEN discovered ELSE collected[0]

\* C30: in text mode stdout holds one line for every record seen so far and no
\* other, in the order the records were first seen, the count of line i being i
\* and the rest the fields of record i; with several services a step of a worker
\* writes nothing to stdout.
C30_TextLines ==
    [][/\ outputMode' = OutputText =>
             /\ Len(RecordLines') = Len(FirstSeen')
             /\ \A i \in 1..Len(FirstSeen') :
                   LET srv == FirstSeen'[i]
                   IN RecordLines'[i].parts =
                         <<ToString(i), srv.ServiceType, srv.Hostname, srv.Address,
                           ToString(srv.Port)>>
                         \o (IF srv.Text # << >> THEN <<srv.Text>> ELSE << >>)
       /\ MultiService /\ (\E w \in Workers : pc'[w] # pc[w] \/ collected'[w] # collected[w])
             => stdout' = stdout]_vars

C30_Witness ==
    /\ outputMode = OutputText
    /\ MultiService
    /\ mainPc = "aggregate"
    /\ Len(discovered) = 2
    /\ Len(RecordLines) = 2
    /\ RecordLines[2].parts[1] = "2"
    /\ Len(ch) = 1
    /\ \E i \in 1..Len(ch[1].services) : KeyOf(ch[1].services[i]) \in KeysOf(discovered)

\* the name a raw field name stands for once the blanks around it are cut
Trimmed(raw) ==
    CASE raw = <<" ", "hostname">> -> "hostname"
      [] raw = <<"address", " ">> -> "address"
      [] raw = <<" ">> -> ""
      [] OTHER -> raw[1]

\* the position of the first name of fields that trims to f
FirstNamed(fields, f) ==
    CHOOSE n \in 1..Len(fields) :
        Trimmed(fields[n]) = f /\ \A m \in 1..(n - 1) : Trimmed(fields[m]) # f

\* C31: normalizeOutputFields gives the six default fields for an empty list; for
\* another list it gives the names trimmed, without the blank ones, each once, in
\* the order of their first occurrence, and the set of exactly those names; a name
\* that is no field adds nothing to a line.
C31_Normalize ==
    applied.fn = "normalizeOutputFields" =>
        LET fields == applied.fields
            ordered == applied.ordered
        IN /\ Len(fields) = 0 =>
                 /\ ordered = <<"count", "service", "hostname", "address", "port", "text">>
                 /\ applied.selected = {"count", "service", "hostname", "address", "port", "text"}
           /\ Len(fields) > 0 =>
                 /\ \A k \in 1..Len(ordered) :
                       ordered[k] # "" /\ \E i \in 1..Len(fields) : Trimmed(fields[i]) = ordered[k]
                 /\ \A i \in 1..Len(fields) :
                       Trimmed(fields[i]) # "" => \E k \in 1..Len(ordered) : ordered[k] = Trimmed(fields[i])
                 /\ \A k, l \in 1..Len(ordered) :
                       k < l => FirstNamed(fields, ordered[k]) < FirstNamed(fields, ordered[l])
           /\ applied.selected = {ordered[k] : k \in 1..Len(ordered)}
           /\ Len(applied.parts) = Cardinality(applied.selected \cap DefaultFields)
           /\ \A k \in 1..Len(applied.parts) : applied.parts[k] # "bogus"

C31_Witness ==
    /\ applied.fn = "normalizeOutputFields"
    /\ applied.fields = << <<" ", "hostname">>, <<"hostname">> >>
    /\ applied.ordered = <<"hostname">>
    /\ applied.selected = {"hostname"}
    /\ applied.parts = <<"host.local.">>

\* C32: normalizeOutputFields applied to the list it returned gives that list and
\* that selection again, for every list of names.
C32_Idempotent ==
    applied.fn = "normalizeOutputFields" =>
        /\ applied.ordered2 = applied.ordered
        /\ applied.selected2 = applied.selected

\* the part of C32 that holds: for a list with a name that is not blank, and for
\* the empty list
IdempotentUnlessBlank ==
    applied.fn = "normalizeOutputFields" /\ (applied.ordered # << >> \/ applied.fields = << >>) =>
        /\ applied.ordered2 = applied.ordered
        /\ applied.selected2 = applied.selected

\* the workers that have not yet read outputFields for their call of discover
YetToRead == {w \in Workers : pc[w] \in {"acquire", "start"}}

\* the step is one of a worker
WorkerStep == mainPc' = mainPc /\ closerPc' = closerPc /\ \E w \in Workers : pc'[w] # pc[w]

\* C33: main writes no variable a worker has yet to read, and a step of a worker
\* leaves the seen set, the count and the aggregated list of the aggregator as
\* they are.
C33_MessagesOnly ==
    [][/\ outputFields' # outputFields => YetToRead = {}
       /\ WorkerStep /\ launched' = launched =>
             seen' = seen /\ count' = count /\ discovered' = discovered]_vars

\* the part of C33 that holds: the workers write nothing of the aggregator
WorkersLeaveAggregate ==
    [][WorkerStep /\ launched' = launched =>
          /\ seen' = seen /\ count' = count /\ discovered' = discovered
          /\ outputFields' = outputFields /\ mainSelectedFields' = mainSelectedFields]_vars

\* C34: a worker that has its result can send it at once: the channel is open and
\* holds fewer messages than the catalog has entries, whatever the aggregator has
\* received so far.
C34_SendNeverBlocks ==
    \A w \in Workers :
        pc[w] = "ret" =>
            /\ ~chClosed
            /\ Len(ch) < Len(services)
            /\ ENABLED WorkerSend(w)

C34_Witness ==
    /\ MultiService
    /\ Len(services) = 2
    /\ mainPc = "aggregate"
    /\ nbatches = 0
    /\ Len(ch) = 1
    /\ \E w \in Workers : pc[w] = "ret" /\ sem = 1

\* the keys of the records that workers hold or have sent without error and the
\* aggregator has not received yet
PendingKeys ==
    UNION ({KeysOf(collected[w]) : w \in Workers}
           \cup {KeysOf(ch[i].services) : i \in {j \in 1..Len(ch) : ch[j].err = errNil}})

\* C35: with several services no step loses a key of a record a worker holds or
\* has returned without error, the aggregated list gets no key but such a one, and
\* when the aggregator has ended none is left outside the list: the keys of the
\* list are the union of the keys of the batches returned without error.
C35_KeysAreUnion ==
    [][MultiService =>
          /\ KeysOf(discovered) \cup PendingKeys \subseteq KeysOf(discovered') \cup PendingKeys'
          /\ KeysOf(discovered') \subseteq KeysOf(discovered) \cup PendingKeys
          /\ AggStep /\ Head(ch).err = errNil =>
                KeysOf(discovered') = KeysOf(discovered) \cup KeysOf(Head(ch).services)
          /\ AggStep /\ Head(ch).err # errNil => discovered' = discovered
          /\ AggregatorEnded' => PendingKeys' = {}]_vars

C35_Witness ==
    /\ MultiService
    /\ mainPc = "done"
    /\ nbatches = 2
    /\ appended = 3
    /\ Len(discovered) = 2
    /\ Len(stderr) = 0

\* C36: a query that has started got a timeout above zero.
C36_PositiveTimeout ==
    \A c \in Calls : invocations[c] > 0 => effectiveTimeout > 0

====
